---- MODULE Spec2Model ----
(***************************************************************************)
(* A model of the Gomoku Alpha-Beta engine (class GomokuAI, gomoku-ai.js). *)
(*                                                                         *)
(* The board is board[row][col] with rows and columns 0..boardSize-1 and   *)
(* cell values 0 (empty), 1 (black), 2 (white), as in the source.          *)
(* An encoded line is a sequence over 0 (empty), 1 (own), 2 (other or      *)
(* boundary) and 3, which stands for the letter 'x' that calculateLineScore*)
(* writes over a matched own stone.                                        *)
(*                                                                         *)
(* Numbers: every weight of the two weight tables is a multiple of 5 and   *)
(* the two factors 0.8 and opponentThreat are kept in tenths, so every     *)
(* product the source forms is an integer and is computed here exactly.    *)
(* A weight the table lacks is undefined in the source and turns every sum *)
(* and product it enters into NaN; NaN is a value of its own here, which   *)
(* the operators Add, Mul, Neg, Scale and Max hand on and every comparison *)
(* answers with false.                                                     *)
(***************************************************************************)
EXTENDS Integers, Sequences, FiniteSets, TLC

\* ------------------------------------------------------------------------
\* Program constants
\* ------------------------------------------------------------------------

\* settings.boardSize, copied to this.boardSize
boardSize == 15

\* the defaults of the constructor: settings.searchDepth || 6,
\* settings.candidateCount || 10, settings.searchRange || 2
DefaultDepth == 6

DefaultCount == 10

DefaultRange == 2

\* the letter 'x' of calculateLineScore's replacement
NeutralMark == 3

\* Infinity of findBestMove / alphaBetaSearch: above every score that occurs
Infinity == 1000000000

\* the terminal score of alphaBetaSearch, before the depth is added
WinScore == 10000

\* NaN, the value of an arithmetic expression with an undefined operand; as a
\* number it lies beyond Infinity, where no score is
NaN == 2 * Infinity

\* the factor 0.8 of quickEvaluatePosition, in tenths
BlockFactorTenths == 8

Rows == 0..(boardSize - 1)

\* [0, 1], [1, 0], [1, 1], [1, -1]
directions == << <<0, 1>>, <<1, 0>>, <<1, 1>>, <<1, -1>> >>

\* the constructor's default patternWeights (opponentThreat -0.8, in tenths)
DefaultWeights ==
    [liveFive |-> 100000, liveFour |-> 5000, deadFour |-> 400,
     liveThree |-> 400, deadThree |-> 20, liveTwo |-> 10, deadTwo |-> 5,
     opponentThreat |-> -8]

\* the patternWeights GomokuGame hands to the constructor (opponentThreat 1.2)
GameWeights ==
    [liveFive |-> 100000, liveFour |-> 100000, deadFour |-> 500,
     liveThree |-> 1000, deadThree |-> 100, liveTwo |-> 100, deadTwo |-> 10,
     opponentThreat |-> 12]

\* this.patterns: the rules in order, each a list of alternatives in order
patterns ==
    << [type |-> "liveFive",  regex |-> << <<1,1,1,1,1>> >>],
       [type |-> "liveFour",  regex |-> << <<0,1,1,1,1,0>> >>],
       [type |-> "deadFour",  regex |-> << <<0,1,1,1,1,2>>, <<2,1,1,1,1,0>>,
                                           <<1,0,1,1,1>>, <<1,1,0,1,1>>,
                                           <<1,1,1,0,1>> >>],
       [type |-> "liveThree", regex |-> << <<0,1,1,1,0>>, <<0,1,0,1,1,0>>,
                                           <<0,1,1,0,1,0>> >>],
       [type |-> "deadThree", regex |-> << <<0,0,1,1,1,2>>, <<2,1,1,1,0,0>>,
                                           <<0,1,0,1,1,2>>, <<2,1,1,0,1,0>>,
                                           <<0,1,1,0,1,2>>, <<2,1,0,1,1,0>>,
                                           <<1,0,0,1,1>>, <<1,1,0,0,1>>,
                                           <<1,0,1,0,1>> >>],
       [type |-> "liveTwo",   regex |-> << <<0,0,1,1,0,0>>, <<0,1,1,0,0>>,
                                           <<0,0,1,1,0>>, <<0,1,0,1,0>>,
                                           <<0,1,0,0,1,0>> >>] >>

\* ------------------------------------------------------------------------
\* Helpers standing for JavaScript built-ins
\* ------------------------------------------------------------------------

\* Math.max
Max(a, b) == IF a = NaN \/ b = NaN THEN NaN ELSE IF a >= b THEN a ELSE b

\* Math.min
Min(a, b) == IF a = NaN \/ b = NaN THEN NaN ELSE IF a <= b THEN a ELSE b

\* a + b
Add(a, b) == IF a = NaN \/ b = NaN THEN NaN ELSE a + b

\* a * b
Mul(a, b) == IF a = NaN \/ b = NaN THEN NaN ELSE a * b

\* -a
Neg(a) == IF a = NaN THEN NaN ELSE -a

\* a * factor for a factor kept in tenths
Scale(a, tenths) == IF a = NaN \/ tenths = NaN THEN NaN ELSE (a * tenths) \div 10

\* a > b and a >= b, false when an operand is NaN
Greater(a, b) == a # NaN /\ b # NaN /\ a > b

GreaterEq(a, b) == a # NaN /\ b # NaN /\ a >= b

\* patternWeights[key]: undefined when the table has no such key, and NaN in
\* every sum and product, the only places where the source uses a weight
Weight(weights, key) == IF key \in DOMAIN weights THEN weights[key] ELSE NaN

\* const x = value; Body(x): the value is computed once, before the body uses it
Const(value, Body(_)) == CHOOSE r \in {Body(x) : x \in {value}} : TRUE

\* an array or a map literal: every element is computed when it is built
Array(f) == f @@ << >>

\* whether the alternative alt matches str at position i
MatchAt(str, i, alt) ==
    /\ i + Len(alt) - 1 <= Len(str)
    /\ SubSeq(str, i, i + Len(alt) - 1) = alt

\* the alternatives of each rule, as sets by length: the texts the rule matches
AltsByLength ==
    [k \in 1..Len(patterns) |->
        [n \in {Len(patterns[k].regex[a]) : a \in 1..Len(patterns[k].regex)} |->
            {patterns[k].regex[a] :
                a \in {b \in 1..Len(patterns[k].regex) : Len(patterns[k].regex[b]) = n}}]]

\* whether some alternative of rule k matches str at position i
MatchesAt(str, i, k) ==
    \E n \in DOMAIN AltsByLength[k] :
        /\ i + n - 1 <= Len(str)
        /\ SubSeq(str, i, i + n - 1) \in AltsByLength[k][n]

\* String.prototype.match without the g flag, for the regex of rule k: the
\* leftmost position where some alternative matches, and at that position the
\* first alternative that does. Returns <<position, length>>, <<0, 0>> for null.
FirstMatch(str, k) ==
    Const({i \in 1..Len(str) : MatchesAt(str, i, k)},
          LAMBDA hits :
              IF hits = {} THEN <<0, 0>>
              ELSE LET i     == CHOOSE h \in hits : \A g \in hits : h <= g
                       regex == patterns[k].regex
                       a     == CHOOSE b \in 1..Len(regex) :
                                    /\ MatchAt(str, i, regex[b])
                                    /\ \A e \in 1..(b - 1) : ~MatchAt(str, i, regex[e])
                   IN  <<i, Len(regex[a])>>)

\* tempStr.replace(matchedPart, matchedPart.replace(/1/g, 'x')): the first
\* occurrence of the matched text is the match itself
NeutralizeMatch(str, m) ==
    Array([k \in 1..Len(str) |->
              IF k >= m[1] /\ k < m[1] + m[2] /\ str[k] = 1 THEN NeutralMark ELSE str[k]])

\* ------------------------------------------------------------------------
\* Pattern classifier
\* ------------------------------------------------------------------------

\* the while (true) loop of calculateLineScore for one rule: the number of
\* matches it finds in the working copy
RECURSIVE CountMatches(_, _)
CountMatches(tempStr, k) ==
    Const(FirstMatch(tempStr, k),
          LAMBDA m : IF m[1] = 0 THEN 0
                     ELSE 1 + CountMatches(NeutralizeMatch(tempStr, m), k))

\* the working copy a rule starts from: let tempStr = lineStr
RuleStart(lineStr, k) == lineStr

\* score += patternWeights[pattern.type], once for every match of a rule: the
\* weight is read only when the rule has matched
RuleScore(matches, weights, k) ==
    IF matches = 0 THEN 0 ELSE Mul(matches, Weight(weights, patterns[k].type))

RECURSIVE LineScoreFrom(_, _, _)
LineScoreFrom(lineStr, weights, k) ==
    IF k > Len(patterns) THEN 0
    ELSE Add(RuleScore(CountMatches(RuleStart(lineStr, k), k), weights, k),
             LineScoreFrom(lineStr, weights, k + 1))

calculateLineScore(lineStr, weights) ==
    Const(lineStr, LAMBDA line : LineScoreFrom(line, weights, 1))

\* ------------------------------------------------------------------------
\* Line encoder
\* ------------------------------------------------------------------------

InBounds(r, c) == r >= 0 /\ r < boardSize /\ c >= 0 /\ c < boardSize

\* val === player ? "1" : (val === 0 ? "0" : "2")
Encode(val, player) == IF val = player THEN 1 ELSE IF val = 0 THEN 0 ELSE 2

\* the cells r + k*dr, c + k*dc for k = minK..maxK, where minK and maxK start at
\* -4 and 4 and move towards 0 while the cell is off the board
getLineString(board, r, c, dr, dc, player, forceCenterAsPlayer) ==
    LET minK == CHOOSE k \in -4..0 :
                    /\ InBounds(r + k * dr, c + k * dc)
                    /\ (k = -4 \/ ~InBounds(r + (k - 1) * dr, c + (k - 1) * dc))
        maxK == CHOOSE k \in 0..4 :
                    /\ InBounds(r + k * dr, c + k * dc)
                    /\ (k = 4 \/ ~InBounds(r + (k + 1) * dr, c + (k + 1) * dc))
        str  == [i \in 1..(maxK - minK + 1) |->
                    LET k == minK + i - 1
                    IN  IF k = 0 /\ forceCenterAsPlayer THEN 1
                        ELSE Encode(board[r + k * dr][c + k * dc], player)]
    IN  <<2>> \o str \o <<2>>

getRowString(board, row, player) ==
    <<2>> \o [i \in 1..boardSize |-> Encode(board[row][i - 1], player)] \o <<2>>

getColString(board, col, player) ==
    <<2>> \o [i \in 1..boardSize |-> Encode(board[i - 1][col], player)] \o <<2>>

\* the rows of the diagonal row - col = k, in increasing order
MainDiagRows(k) == {row \in Rows : row - k >= 0 /\ row - k < boardSize}

\* the rows of the anti-diagonal row + col = k, in increasing order
AntiDiagRows(k) == {row \in Rows : k - row >= 0 /\ k - row < boardSize}

MainDiagString(board, k, player) ==
    LET first == CHOOSE r \in MainDiagRows(k) : \A q \in MainDiagRows(k) : r <= q
    IN  <<2>> \o [i \in 1..Cardinality(MainDiagRows(k)) |->
                    Encode(board[first + i - 1][first + i - 1 - k], player)] \o <<2>>

AntiDiagString(board, k, player) ==
    LET first == CHOOSE r \in AntiDiagRows(k) : \A q \in AntiDiagRows(k) : r <= q
    IN  <<2>> \o [i \in 1..Cardinality(AntiDiagRows(k)) |->
                    Encode(board[first + i - 1][k - (first + i - 1)], player)] \o <<2>>

\* a variant of getAllDiagonals: the anti-diagonals begin at k = 5
getAllDiagonals_Short(board, player) ==
    [i \in 1..(2 * (boardSize - 5) + 1) |->
        MainDiagString(board, i - 1 - (boardSize - 5), player)]
    \o
    [i \in 1..(2 * (boardSize - 1) - 4 - 5 + 1) |->
        AntiDiagString(board, i - 1 + 5, player)]

\* k = -(size - 5)..(size - 5), then k = 4..2*(size - 1) - 4
getAllDiagonals(board, player) ==
    [i \in 1..(2 * (boardSize - 5) + 1) |->
        MainDiagString(board, i - 1 - (boardSize - 5), player)]
    \o
    [i \in 1..(2 * (boardSize - 1) - 4 - 4 + 1) |->
        AntiDiagString(board, i - 1 + 4, player)]

\* ------------------------------------------------------------------------
\* Position evaluator
\* ------------------------------------------------------------------------

\* the sum of a list of numbers, which is NaN when one of them is
RECURSIVE SumFrom(_, _)
SumFrom(scores, i) ==
    IF i > Len(scores) THEN 0 ELSE scores[i] + SumFrom(scores, i + 1)

Sum(scores) ==
    IF \E i \in 1..Len(scores) : scores[i] = NaN THEN NaN ELSE SumFrom(scores, 1)

\* totalScore += this.calculateLineScore(line), for every line of a list
SumScores(lines, weights) ==
    Sum(Array([i \in 1..Len(lines) |-> calculateLineScore(lines[i], weights)]))

evaluatePatternsForPlayer(board, player, weights) ==
    Add(Add(SumScores([i \in 1..boardSize |-> getRowString(board, i - 1, player)],
                      weights),
            SumScores([i \in 1..boardSize |-> getColString(board, i - 1, player)],
                      weights)),
        SumScores(getAllDiagonals(board, player), weights))

\* myScore - opponentScore * opponentThreat
evaluateBoard(board, player, weights) ==
    LET myScore       == evaluatePatternsForPlayer(board, player, weights)
        opponentScore == evaluatePatternsForPlayer(board, 3 - player, weights)
    IN  Add(myScore, Neg(Scale(opponentScore, Weight(weights, "opponentThreat"))))

\* board[row][col] = value
SetCell(board, row, col, value) == [board EXCEPT ![row][col] = value]

\* the sum over the four directions of the line score through (row, col)
RECURSIVE DirectionsScore(_, _, _, _, _, _, _)
DirectionsScore(board, row, col, who, force, weights, d) ==
    IF d > Len(directions) THEN 0
    ELSE Add(calculateLineScore(
                 getLineString(board, row, col, directions[d][1], directions[d][2],
                               who, force),
                 weights),
             DirectionsScore(board, row, col, who, force, weights, d + 1))

\* a variant of QuickRestore: the stone placed for scoring is left on the board
QuickRestore_Forgotten(board, row, col) == board

\* the cell as quickEvaluatePosition leaves it: board[row][col] = 0
QuickRestore(board, row, col) == SetCell(board, row, col, 0)

\* returns the score and the board as the call leaves it
quickEvaluatePosition(board, row, col, player, weights) ==
    Const(SetCell(board, row, col, player),
          LAMBDA placed :
              [score |-> Add(DirectionsScore(placed, row, col, player, FALSE, weights, 1),
                             Scale(DirectionsScore(placed, row, col, 3 - player, TRUE,
                                                   weights, 1),
                                   BlockFactorTenths)),
               board |-> QuickRestore(placed, row, col)])

\* ------------------------------------------------------------------------
\* Terminal detector
\* ------------------------------------------------------------------------

\* the while loop of hasFiveInARow: the stones of player from (r, c) on
RECURSIVE RunFrom(_, _, _, _, _, _)
RunFrom(board, r, c, dr, dc, player) ==
    IF InBounds(r, c) /\ board[r][c] = player
    THEN 1 + RunFrom(board, r + dr, c + dc, dr, dc, player)
    ELSE 0

\* a variant of hasFiveInARow: the count has to exceed five
hasFiveInARow_Six(board, player) ==
    \E row \in Rows : \E col \in Rows :
        /\ board[row][col] = player
        /\ \E d \in 1..Len(directions) :
              1 + RunFrom(board, row + directions[d][1], col + directions[d][2],
                          directions[d][1], directions[d][2], player) > 5

hasFiveInARow(board, player) ==
    \E row \in Rows : \E col \in Rows :
        /\ board[row][col] = player
        /\ \E d \in 1..Len(directions) :
              1 + RunFrom(board, row + directions[d][1], col + directions[d][2],
                          directions[d][1], directions[d][2], player) >= 5

\* one of the two walks of detectPatternInDirection, from the cell next to the
\* given one: the stones counted, and 1 if the walk stopped on a stone of the
\* opponent, 0 if it stopped on an empty cell or left the board
WalkBlocked(board, r, c, dr, dc, player) ==
    LET n == RunFrom(board, r, c, dr, dc, player)
    IN  IF InBounds(r + n * dr, c + n * dc) /\ board[r + n * dr][c + n * dc] = 3 - player
        THEN 1 ELSE 0

\* count starts at 1 for the given cell; both walks add to count and blocked
detectPatternInDirection(board, row, col, dx, dy, player) ==
    LET count   == 1 + RunFrom(board, row + dx, col + dy, dx, dy, player)
                     + RunFrom(board, row - dx, col - dy, -dx, -dy, player)
        blocked == WalkBlocked(board, row + dx, col + dy, dx, dy, player)
                   + WalkBlocked(board, row - dx, col - dy, -dx, -dy, player)
    IN  IF count >= 5 THEN "liveFive"
        ELSE IF count = 4 THEN (IF blocked = 0 THEN "liveFour" ELSE "deadFour")
        ELSE IF count = 3 THEN (IF blocked = 0 THEN "liveThree" ELSE "deadThree")
        ELSE IF count = 2 THEN (IF blocked = 0 THEN "liveTwo" ELSE "deadTwo")
        ELSE "null"

isBoardFull(board) == \A row \in Rows : \A col \in Rows : board[row][col] # 0

checkWinner(board) ==
    IF hasFiveInARow(board, 1) THEN 1
    ELSE IF hasFiveInARow(board, 2) THEN 2
    ELSE IF isBoardFull(board) THEN 0
    ELSE -1

\* ------------------------------------------------------------------------
\* Candidate generator
\* ------------------------------------------------------------------------

\* a variant of hasNearbyPieces: the loops stop one short of endRow and endCol
hasNearbyPieces_Short(board, row, col, range) ==
    LET startRow == Max(0, row - range)
        endRow   == Min(boardSize - 1, row + range)
        startCol == Max(0, col - range)
        endCol   == Min(boardSize - 1, col + range)
    IN  \E r \in startRow..(endRow - 1) : \E c \in startCol..(endCol - 1) :
            board[r][c] # 0

hasNearbyPieces(board, row, col, range) ==
    LET startRow == Max(0, row - range)
        endRow   == Min(boardSize - 1, row + range)
        startCol == Max(0, col - range)
        endCol   == Min(boardSize - 1, col + range)
    IN  \E r \in startRow..endRow : \E c \in startCol..endCol : board[r][c] # 0

\* the body of the double loop of generateCandidateMoves for one cell: a cell
\* that is occupied or has no piece nearby is skipped, any other is scored and
\* pushed. st holds the moves pushed so far and the board as the loop has left it
ScanCell(st, player, range, weights, row, col) ==
    IF st.board[row][col] # 0 \/ ~hasNearbyPieces(st.board, row, col, range)
    THEN st
    ELSE Const(quickEvaluatePosition(st.board, row, col, player, weights),
               LAMBDA q : [moves |-> Append(st.moves, [move |-> <<row, col>>,
                                                        score |-> q.score]),
                           board |-> q.board])

\* the inner loop: for (let col = 0; col < this.boardSize; col++)
RECURSIVE ScanCols(_, _, _, _, _, _)
ScanCols(st, player, range, weights, row, col) ==
    IF col >= boardSize THEN st
    ELSE Const(ScanCell(st, player, range, weights, row, col),
               LAMBDA next : ScanCols(next, player, range, weights, row, col + 1))

\* the outer loop: for (let row = 0; row < this.boardSize; row++)
RECURSIVE ScanRows(_, _, _, _, _)
ScanRows(st, player, range, weights, row) ==
    IF row >= boardSize THEN st
    ELSE Const(ScanCols(st, player, range, weights, row, 0),
               LAMBDA next : ScanRows(next, player, range, weights, row + 1))

\* a variant of CompareMoves: scoreA - scoreB
CompareMoves_Ascending(a, b) == Add(a.score, Neg(b.score))

\* the comparator of moves.sort: scoreB - scoreA
CompareMoves(a, b) == Add(b.score, Neg(a.score))

\* the comparator as Array.prototype.sort reads it: NaN counts as 0
SortCompare(a, b) ==
    Const(CompareMoves(a, b), LAMBDA v : IF v = NaN THEN 0 ELSE v)

\* Array.prototype.sort, which is stable: the element at index i comes after
\* those the comparator puts before it and after the equal ones that precede it.
\* (The order is the implementation's choice when the comparator answers NaN,
\* that is when a score is NaN; the boards searched with a table that lacks a
\* pattern key are chosen so that no move is scored.)
SortedPosition(moves, i) ==
    1 + Cardinality({j \in 1..Len(moves) :
                        \/ SortCompare(moves[j], moves[i]) < 0
                        \/ (SortCompare(moves[j], moves[i]) = 0 /\ j < i)})

SortMoves(moves) ==
    Const(Array([i \in 1..Len(moves) |-> SortedPosition(moves, i)]),
          LAMBDA pos : [r \in 1..Len(moves) |->
                           moves[CHOOSE i \in 1..Len(moves) : pos[i] = r]])

\* moves.slice(0, candidateCount): a negative end counts from the end of the list
Slice(moves, count) ==
    SubSeq(moves, 1, IF count < 0 THEN Max(Len(moves) + count, 0)
                     ELSE Min(count, Len(moves)))

\* returns the candidate moves, their scores, and the board as the call leaves it
generateCandidateMoves(board, player, settings) ==
    Const(ScanRows([moves |-> << >>, board |-> board], player,
                   settings.searchRange, settings.patternWeights, 0),
          LAMBDA scan :
              Const(Slice(SortMoves(scan.moves), settings.candidateCount),
                    LAMBDA top : [moves  |-> [i \in 1..Len(top) |-> top[i].move],
                                  scores |-> [i \in 1..Len(top) |-> top[i].score],
                                  board  |-> scan.board]))

\* ------------------------------------------------------------------------
\* State
\* ------------------------------------------------------------------------

VARIABLES
    game,          \* the fields of the GomokuGame that owns the board: currentPlayer,
                   \* gameOver, winner, moveHistory, aiThinking, and the position
                   \* as it was when the AI request in flight was accepted
    given,         \* the settings object handed to the constructor
    settings,      \* this.settings of the GomokuAI instance
    board,         \* the caller's board, which the engine writes in place
    pc,            \* where the engine is: idle, root, enter, loop, return, finish, done
    entry,         \* the call in progress or just finished: its name, arguments and
                   \* the board as it was when the call was made
    root,          \* the locals of findBestMove
    stack,         \* the alphaBetaSearch invocations in progress, innermost last
    retval,        \* the value the innermost invocation returns
    searchNodes,   \* this.searchNodes
    pruningCount,  \* this.pruningCount
    logs,          \* this.logs
    result,        \* what the finished call returned
    lineStr,       \* the encoded line handed to calculateLineScore
    invocations,   \* how often alphaBetaSearch has been entered since the call in
                   \* progress began
    history        \* the findBestMove calls the instance has finished before the
                   \* call in progress: board, player and result of each, and
                   \* the counters and the log as the call left them

vars == <<game, given, settings, board, pc, entry, root, stack, retval,
          searchNodes, pruningCount, logs, result, lineStr, invocations, history>>

\* null
Null == [kind |-> "null"]

\* the null of bestMove, where a move is <<row, col>>
NoMove == << >>

NoRoot == [candidates |-> << >>, i |-> 0, bestMove |-> NoMove, bestScore |-> 0,
           alpha |-> 0, beta |-> 0, player |-> 0]

\* Array(boardSize).fill().map(() => Array(boardSize).fill(0))
EmptyBoard == [r \in Rows |-> [c \in Rows |-> 0]]

\* a board holding the given stones, each <<row, col, player>>
RECURSIVE WithStones(_, _)
WithStones(b, stones) ==
    IF stones = << >> THEN b
    ELSE WithStones(SetCell(b, stones[1][1], stones[1][2], stones[1][3]), Tail(stones))

\* settings.key || default: the default when the key is missing or its value 0
OrDefault(argument, key, default) ==
    IF key \notin DOMAIN argument \/ argument[key] = 0 THEN default ELSE argument[key]

\* this.settings as the constructor builds it: the four defaults, then
\* ...settings, which writes every key of the argument over them (boardSize,
\* which no argument here carries, is the definition boardSize)
constructor(argument) ==
    argument @@ [searchDepth    |-> OrDefault(argument, "searchDepth", DefaultDepth),
                 candidateCount |-> OrDefault(argument, "candidateCount", DefaultCount),
                 searchRange    |-> OrDefault(argument, "searchRange", DefaultRange),
                 patternWeights |-> DefaultWeights]

\* ------------------------------------------------------------------------
\* findBestMove and alphaBetaSearch, one step per action
\* ------------------------------------------------------------------------

\* the recursion of alphaBetaSearch is followed MaxPlies invocations deep
MaxPlies == 8

\* an instance is followed through MaxCalls calls of findBestMove
MaxCalls == 3

\* the locals of one alphaBetaSearch invocation at its entry
Frame(depth, alpha, beta, player) ==
    [depth |-> depth, alpha |-> alpha, beta |-> beta, player |-> player,
     candidates |-> << >>, i |-> 0, maxScore |-> -Infinity]

\* a variant of ChildFrame: the window is negated but not swapped
ChildFrame_Unswapped(depth, alpha, beta, player) ==
    Frame(depth - 1, Neg(alpha), Neg(beta), 3 - player)

\* a variant of ChildFrame: the window is swapped but not negated
ChildFrame_Unnegated(depth, alpha, beta, player) ==
    Frame(depth - 1, beta, alpha, 3 - player)

\* a variant of ChildFrame: the depth is handed on as it is
ChildFrame_SameDepth(depth, alpha, beta, player) ==
    Frame(depth, Neg(beta), Neg(alpha), 3 - player)

\* the recursive call: depth - 1, -beta, -alpha, 3 - player
ChildFrame(depth, alpha, beta, player) ==
    Frame(depth - 1, Neg(beta), Neg(alpha), 3 - player)

\* a variant of NoCandidates: the test for an empty list never succeeds
NoCandidates_Never(candidates) == FALSE

\* if (candidates.length === 0)
NoCandidates(candidates) == Len(candidates) = 0

\* a variant of LoopHead: the loop is left before the last candidate
LoopHead_Short(candidates, i) == IF i >= Len(candidates) THEN "finish" ELSE "root"

\* for (const move of candidates): the loop goes on with candidate i or is left
LoopHead(candidates, i) == IF i > Len(candidates) THEN "finish" ELSE "root"

\* return 10000 + depth
WonValue(depth) == WinScore + depth

\* a variant of LostValue: the remaining depth is left out
LostValue_Flat(depth) == -WinScore

\* return -10000 - depth
LostValue(depth) == -WinScore - depth

\* a variant of MakeMove: the stone placed is the opponent's
MakeMove_Opponent(b, move, player) == SetCell(b, move[1], move[2], 3 - player)

\* board[row][col] = player before the recursive call
MakeMove(b, move, player) == SetCell(b, move[1], move[2], player)

\* a variant of UndoMove: the stone is left on the board
UndoMove_Forgotten(b, move) == b

\* board[row][col] = 0 after the recursive call
UndoMove(b, move) == SetCell(b, move[1], move[2], 0)

\* a variant of BetaCutoff: the loop is never cut off
BetaCutoff_Never(alpha, beta) == FALSE

\* if (alpha >= beta)
BetaCutoff(alpha, beta) == GreaterEq(alpha, beta)

\* a variant of Improves: the best score starts from zero
Improves_FromZero(score, bestScore) == Greater(score, Max(bestScore, 0))

\* a variant of Improves: an equal score replaces the best move too
Improves_OrEqual(score, bestScore) == GreaterEq(score, bestScore)

\* if (score > bestScore)
Improves(score, bestScore) == Greater(score, bestScore)

\* a variant of ResetCount: the counter keeps its value
ResetCount_Kept(count) == count

\* this.searchNodes = 0; this.pruningCount = 0
ResetCount(count) == 0

\* findBestMove up to its loop: the counters and the log are reset, the
\* candidates generated and counted in the log; null when there is none
FindBestMove(p) ==
    /\ pc = "idle"
    /\ \E g \in {generateCandidateMoves(board, p, settings)} :
           /\ entry' = [op |-> "findBestMove", player |-> p, row |-> -1, col |-> -1,
                        board |-> board]
           /\ board' = g.board
           /\ searchNodes' = ResetCount(searchNodes)
           /\ pruningCount' = ResetCount(pruningCount)
           /\ logs' = << [kind |-> "candidates", count |-> Len(g.moves)] >>
           /\ invocations' = 0
           /\ root' = [candidates |-> g.moves, i |-> 1, bestMove |-> NoMove,
                       bestScore |-> -Infinity, alpha |-> -Infinity,
                       beta |-> Infinity, player |-> p]
           /\ IF NoCandidates(g.moves)
              THEN pc' = "done" /\ result' = Null
              ELSE pc' = LoopHead(g.moves, 1) /\ result' = result
    /\ UNCHANGED <<game, given, history, settings, stack, retval, lineStr>>

\* the root loop places the next candidate and calls alphaBetaSearch
RootPlace ==
    /\ pc = "root"
    /\ LET move == root.candidates[root.i]
       IN  /\ board' = MakeMove(board, move, root.player)
           /\ stack' = << ChildFrame(settings.searchDepth, root.alpha, root.beta,
                                     root.player) >>
    /\ pc' = "enter"
    /\ UNCHANGED <<game, given, history, invocations, settings, entry, root, retval, searchNodes, pruningCount, logs, result, lineStr>>

\* alphaBetaSearch from its entry to its loop, or to its return when the node is
\* a leaf, is won or lost, or has no candidate
Enter ==
    /\ pc = "enter"
    /\ searchNodes' = searchNodes + 1
    /\ invocations' = invocations + 1
    /\ LET f == stack[Len(stack)]
       IN  IF f.depth = 0
           THEN /\ retval' = evaluateBoard(board, f.player, settings.patternWeights)
                /\ pc' = "return"
                /\ UNCHANGED <<board, stack>>
           ELSE \E winner \in {checkWinner(board)} :
                    IF winner = f.player
                    THEN /\ retval' = WonValue(f.depth)
                         /\ pc' = "return"
                         /\ UNCHANGED <<board, stack>>
                    ELSE IF winner = 3 - f.player
                    THEN /\ retval' = LostValue(f.depth)
                         /\ pc' = "return"
                         /\ UNCHANGED <<board, stack>>
                    ELSE \E g \in {generateCandidateMoves(board, f.player, settings)} :
                             /\ board' = g.board
                             /\ IF NoCandidates(g.moves)
                                THEN /\ retval' = 0
                                     /\ pc' = "return"
                                     /\ stack' = stack
                                ELSE /\ retval' = retval
                                     /\ pc' = "loop"
                                     /\ stack' = [stack EXCEPT ![Len(stack)] =
                                           [f EXCEPT !.candidates = g.moves, !.i = 1]]
    /\ UNCHANGED <<game, given, history, settings, entry, root, pruningCount, logs, result, lineStr>>

\* the loop of alphaBetaSearch places the next candidate and recurses (the
\* model follows the recursion MaxPlies invocations deep and no further)
Place ==
    /\ pc = "loop"
    /\ Len(stack) < MaxPlies
    /\ LET f    == stack[Len(stack)]
           move == f.candidates[f.i]
       IN  /\ board' = MakeMove(board, move, f.player)
           /\ stack' = Append(stack, ChildFrame(f.depth, f.alpha, f.beta, f.player))
    /\ pc' = "enter"
    /\ UNCHANGED <<game, given, history, invocations, settings, entry, root, retval, searchNodes, pruningCount, logs, result, lineStr>>

\* a recursive call returns into the loop of alphaBetaSearch: the stone is
\* removed, maxScore and alpha are raised, and the loop goes on, is cut off, or
\* ends, in which two cases the invocation returns maxScore
ReturnToNode ==
    /\ pc = "return"
    /\ Len(stack) >= 2
    /\ LET f        == stack[Len(stack) - 1]
           score    == Neg(retval)
           maxScore == Max(f.maxScore, score)
           alpha    == Max(f.alpha, score)
           cut      == BetaCutoff(alpha, f.beta)
           last     == f.i = Len(f.candidates)
           g        == [f EXCEPT !.maxScore = maxScore, !.alpha = alpha,
                                 !.i = IF cut \/ last THEN f.i ELSE f.i + 1]
       IN  /\ board' = UndoMove(board, f.candidates[f.i])
           /\ stack' = Append(SubSeq(stack, 1, Len(stack) - 2), g)
           /\ pruningCount' = IF cut THEN pruningCount + 1 ELSE pruningCount
           /\ retval' = IF cut \/ last THEN maxScore ELSE retval
           /\ pc' = IF cut \/ last THEN "return" ELSE "loop"
    /\ UNCHANGED <<game, given, history, invocations, settings, entry, root, searchNodes, logs, result, lineStr>>

\* the call made by the root loop returns: the stone is removed, the score
\* logged, and the best move, best score and alpha are raised by a better score
ReturnToRoot ==
    /\ pc = "return"
    /\ Len(stack) = 1
    /\ entry.op = "findBestMove"
    /\ LET move   == root.candidates[root.i]
           score  == Neg(retval)
           better == Improves(score, root.bestScore)
       IN  /\ board' = UndoMove(board, move)
           /\ logs' = Append(logs, [kind |-> "score", move |-> move, score |-> score])
           /\ root' = [root EXCEPT
                          !.bestScore = IF better THEN score ELSE @,
                          !.bestMove  = IF better THEN move ELSE @,
                          !.alpha     = IF better THEN score ELSE @,
                          !.i         = @ + 1]
           /\ pc' = LoopHead(root.candidates, root.i + 1)
    /\ stack' = << >>
    /\ UNCHANGED <<game, given, history, invocations, settings, entry, retval, searchNodes, pruningCount, result, lineStr>>

\* findBestMove after its loop: the summary is logged and the SearchResult
\* returned (searchTime and the timestamps of the log are left out)
Finish ==
    /\ pc = "finish"
    /\ LET summary == [kind |-> "summary", move |-> root.bestMove,
                       score |-> root.bestScore, searchNodes |-> searchNodes,
                       pruningCount |-> pruningCount]
       IN  /\ logs' = Append(logs, summary)
           /\ result' = [kind |-> "SearchResult", move |-> root.bestMove,
                         score |-> root.bestScore, searchNodes |-> searchNodes,
                         pruningCount |-> pruningCount, logs |-> Append(logs, summary)]
    /\ pc' = "done"
    /\ UNCHANGED <<game, given, history, invocations, settings, board, entry, root, stack, retval, searchNodes, pruningCount, lineStr>>

\* alphaBetaSearch called on its own
AlphaBetaSearch(depth, alpha, beta, p) ==
    /\ pc = "idle"
    /\ entry' = [op |-> "alphaBetaSearch", player |-> p, row |-> -1, col |-> -1,
                 board |-> board, depth |-> depth, alpha |-> alpha, beta |-> beta]
    /\ stack' = << Frame(depth, alpha, beta, p) >>
    /\ invocations' = 0
    /\ pc' = "enter"
    /\ UNCHANGED <<game, given, history, settings, board, root, retval, searchNodes, pruningCount,
                   logs, result, lineStr>>

\* the alphaBetaSearch called on its own returns to its caller
ReturnToCaller ==
    /\ pc = "return"
    /\ Len(stack) = 1
    /\ entry.op = "alphaBetaSearch"
    /\ result' = [kind |-> "number", value |-> retval]
    /\ stack' = << >>
    /\ pc' = "done"
    /\ UNCHANGED <<game, given, history, invocations, settings, board, entry, root, retval,
                   searchNodes, pruningCount, logs, lineStr>>

\* the caller has the result of findBestMove and the instance waits for the
\* next call, its counters and its log as the finished call left them
NextCall ==
    /\ pc = "done"
    /\ entry.op = "findBestMove"
    /\ Len(history) < MaxCalls - 1
    /\ history' = Append(history, [board |-> entry.board, player |-> entry.player,
                                   result |-> result, searchNodes |-> searchNodes,
                                   pruningCount |-> pruningCount, logs |-> logs])
    /\ pc' = "idle"
    /\ UNCHANGED <<game, given, invocations, settings, board, entry, root, stack, retval,
                   searchNodes, pruningCount, logs, result, lineStr>>

\* between two calls the caller puts a stone on an empty cell of its board
PlaceStone(row, col, p) ==
    /\ pc = "idle"
    /\ history # << >>
    /\ board[row][col] = 0
    /\ board' = SetCell(board, row, col, p)
    /\ UNCHANGED <<game, given, history, invocations, settings, pc, entry, root, stack, retval,
                   searchNodes, pruningCount, logs, result, lineStr>>

\* evaluateBoard called on its own
EvaluateBoard(p) ==
    /\ pc = "idle"
    /\ entry' = [op |-> "evaluateBoard", player |-> p, row |-> -1, col |-> -1,
                 board |-> board]
    /\ result' = [kind |-> "number",
                  value |-> evaluateBoard(board, p, settings.patternWeights)]
    /\ pc' = "done"
    /\ UNCHANGED <<game, given, history, invocations, settings, board, root, stack, retval, searchNodes, pruningCount, logs, lineStr>>

\* generateCandidateMoves called on its own
GenerateCandidateMoves(p) ==
    /\ pc = "idle"
    /\ \E g \in {generateCandidateMoves(board, p, settings)} :
           /\ board' = g.board
           /\ result' = [kind |-> "moves", moves |-> g.moves, scores |-> g.scores]
    /\ entry' = [op |-> "generateCandidateMoves", player |-> p, row |-> -1, col |-> -1,
                 board |-> board]
    /\ pc' = "done"
    /\ UNCHANGED <<game, given, history, invocations, settings, root, stack, retval, searchNodes, pruningCount, logs, lineStr>>

\* quickEvaluatePosition called on its own, on any cell of the board
QuickEvaluatePosition(row, col, p) ==
    /\ pc = "idle"
    /\ \E q \in {quickEvaluatePosition(board, row, col, p, settings.patternWeights)} :
           /\ board' = q.board
           /\ result' = [kind |-> "number", value |-> q.score]
    /\ entry' = [op |-> "quickEvaluatePosition", player |-> p, row |-> row, col |-> col,
                 board |-> board]
    /\ pc' = "done"
    /\ UNCHANGED <<game, given, history, invocations, settings, root, stack, retval, searchNodes, pruningCount, logs, lineStr>>

\* checkWinner called on its own
CheckWinner ==
    /\ pc = "idle"
    /\ entry' = [op |-> "checkWinner", player |-> 0, row |-> -1, col |-> -1,
                 board |-> board]
    /\ result' = [kind |-> "number", value |-> checkWinner(board)]
    /\ pc' = "done"
    /\ UNCHANGED <<game, given, history, invocations, settings, board, root, stack, retval, searchNodes, pruningCount, logs,
                   lineStr>>

\* calculateLineScore called on its own, on the line lineStr
CalculateLineScore ==
    /\ pc = "idle"
    /\ entry' = [op |-> "calculateLineScore", player |-> 0, row |-> -1, col |-> -1,
                 board |-> board]
    /\ result' = [kind |-> "number",
                  value |-> calculateLineScore(lineStr, settings.patternWeights)]
    /\ pc' = "done"
    /\ UNCHANGED <<game, given, history, invocations, settings, board, root, stack, retval, searchNodes, pruningCount, logs,
                   lineStr>>

\* ------------------------------------------------------------------------
\* Bounds and inputs
\* ------------------------------------------------------------------------

\* searchDepth ranges over 1..MaxDepth
MaxDepth == 3

\* candidateCount ranges over 1..MaxCandidates
MaxCandidates == 3

Players == {1, 2}

\* one black stone in the middle of the board
CenterStone == WithStones(EmptyBoard, << <<7, 7, 1>> >>)

\* black has four in a row, open at both ends, at (7,3)-(7,6)
OpenFour ==
    WithStones(EmptyBoard,
        << <<7, 3, 1>>, <<7, 4, 1>>, <<7, 5, 1>>, <<7, 6, 1>>,
           <<8, 4, 2>>, <<6, 5, 2>>, <<8, 6, 2>>, <<9, 5, 2>> >>)

\* a middle game: three stones each
MiddleGame ==
    WithStones(EmptyBoard,
        << <<7, 7, 1>>, <<7, 8, 1>>, <<6, 6, 1>>,
           <<8, 8, 2>>, <<6, 8, 2>>, <<8, 7, 2>> >>)

\* a full board on which nobody has five in a row
DrawBoard == [r \in Rows |-> [c \in Rows |-> IF (c + 2 * r) % 4 < 2 THEN 1 ELSE 2]]

SearchBoards == {EmptyBoard, CenterStone, OpenFour, MiddleGame, DrawBoard}

SearchSettings ==
    [searchDepth : 1..MaxDepth, candidateCount : 1..MaxCandidates,
     searchRange : {DefaultRange}, patternWeights : {DefaultWeights, GameWeights}]

\* the constructor's defaults, for the calls that read no setting but the weights
DefaultSettings ==
    [searchDepth |-> DefaultDepth, candidateCount |-> DefaultCount,
     searchRange |-> DefaultRange, patternWeights |-> DefaultWeights]

\* the cells of n stones in a row from (r, c) in direction d
RunCells(r, c, d, n) ==
    {<<r + i * directions[d][1], c + i * directions[d][2]>> : i \in 0..(n - 1)}

\* the board b with the stones of p on the given cells
Stamp(b, cells, p) ==
    [r \in Rows |-> [c \in Rows |-> IF <<r, c>> \in cells THEN p ELSE b[r][c]]]

\* the longest run of stones drawn; runs are of 4..MaxRun stones
MaxRun == 6

RunStarts == {<<r, c>> : r \in {0, 4, 9}, c \in {0, 5, 9, 14}}

\* the runs that lie on the board: <<start, direction, length, player>>
Runs ==
    {x \in RunStarts \X (1..Len(directions)) \X (4..MaxRun) \X Players :
        InBounds(x[1][1] + (x[3] - 1) * directions[x[2]][1],
                 x[1][2] + (x[3] - 1) * directions[x[2]][2])}

\* one run on an otherwise empty board
RunBoards ==
    {Stamp(EmptyBoard, RunCells(x[1][1], x[1][2], x[2], x[3]), x[4]) : x \in Runs}

\* one run whose third stone is the other player's
BrokenBoards ==
    {SetCell(Stamp(EmptyBoard, RunCells(x[1][1], x[1][2], x[2], x[3]), x[4]),
             x[1][1] + 2 * directions[x[2]][1], x[1][2] + 2 * directions[x[2]][2],
             3 - x[4]) : x \in Runs}

\* full and nearly full boards, with and without a five
FullBoards ==
    {DrawBoard, SetCell(DrawBoard, 7, 7, 0)}
    \cup {Stamp(DrawBoard, RunCells(x[1][1], x[1][2], x[2], x[3]), x[4]) : x \in Runs}
    \cup {SetCell(Stamp(DrawBoard, RunCells(x[1][1], x[1][2], x[2], x[3]), x[4]),
                  14, 14, 0) : x \in Runs}

\* both players have five in a row
BothFive ==
    Stamp(Stamp(EmptyBoard, RunCells(2, 2, 1, 5), 1), RunCells(10, 2, 1, 5), 2)

WinnerBoards == SearchBoards \cup RunBoards \cup BrokenBoards \cup FullBoards \cup {BothFive}

\* one stone in the corner, one on the edge
CornerStone == WithStones(EmptyBoard, << <<0, 0, 2>> >>)

EdgeStone == WithStones(EmptyBoard, << <<7, 14, 1>> >>)

CandidateBoards == {EmptyBoard, CenterStone, CornerStone, EdgeStone, OpenFour, MiddleGame}

\* the number of cells around a stone within the default range
FullRing == (2 * DefaultRange + 1) * (2 * DefaultRange + 1) - 1

CandidateSettings ==
    [searchDepth : {1},
     candidateCount : {1, MaxCandidates, FullRing, FullRing + MaxCandidates},
     searchRange : 1..DefaultRange,
     patternWeights : {DefaultWeights, GameWeights}]

QuickBoards == {CenterStone, CornerStone, OpenFour, MiddleGame}

\* the encoded lines drawn have at most MaxLineLen cells between the boundaries
MaxLineLen == 7

Lines ==
    {<<2>> \o l \o <<2>> : l \in UNION {[1..n -> {0, 1, 2}] : n \in 1..MaxLineLen}}

\* a weight table without one of its keys
Without(weights, key) == [k \in (DOMAIN weights) \ {key} |-> weights[k]]

\* settings objects a caller hands to the constructor, in which searchDepth is
\* missing, zero, negative or valid
GivenDepths ==
    {[candidateCount |-> 1, searchRange |-> 1]}
    \cup {[searchDepth |-> d, candidateCount |-> 1, searchRange |-> 1] : d \in {0, -1, 2}}

\* the same for candidateCount
GivenCounts ==
    {[searchDepth |-> 1, searchRange |-> 1]}
    \cup {[searchDepth |-> 1, candidateCount |-> c, searchRange |-> 1] : c \in {0, -1, 2}}

\* the same for searchRange
GivenRanges ==
    {[searchDepth |-> 1, candidateCount |-> 2]}
    \cup {[searchDepth |-> 1, candidateCount |-> 2, searchRange |-> r] : r \in {0, -1, 1}}

\* settings objects with a weight table: a complete one, one without
\* opponentThreat, one without liveThree
GivenWeights ==
    {[searchDepth |-> 1, candidateCount |-> 2, searchRange |-> 1, patternWeights |-> w] :
        w \in {GameWeights, Without(DefaultWeights, "opponentThreat"),
               Without(GameWeights, "liveThree")}}

GivenSettings == GivenDepths \cup GivenCounts \cup GivenRanges \cup GivenWeights

ConstructBoards == {EmptyBoard, CenterStone, OpenFour}

\* 2001110002 and 20110002
ConstructLines == {<<2, 0, 0, 1, 1, 1, 0, 0, 0, 2>>, <<2, 0, 1, 1, 0, 0, 0, 2>>}

\* ------------------------------------------------------------------------
\* The engine searching: an instance is constructed with its settings, and
\* findBestMove or evaluateBoard is called on a board
\* ------------------------------------------------------------------------

\* the instance as the constructor leaves it, before any call
\* the GomokuGame after initBoard; winner is << >> for null and <<w>> for the
\* number w; request is << >> while no AI request is in flight; requests counts
\* the AI requests accepted
GameStart ==
    [currentPlayer |-> 1, gameOver |-> FALSE, winner |-> << >>, moveHistory |-> << >>,
     aiThinking |-> FALSE, request |-> << >>, requests |-> 0]

Idle ==
    /\ pc = "idle"
    /\ game = GameStart
    /\ entry = [op |-> "none", player |-> 0, row |-> -1, col |-> -1, board |-> board]
    /\ root = NoRoot
    /\ stack = << >>
    /\ retval = 0
    /\ searchNodes = 0
    /\ pruningCount = 0
    /\ logs = << >>
    /\ result = Null
    /\ invocations = 0
    /\ history = << >>

Init ==
    /\ settings \in SearchSettings
    /\ given = settings
    /\ board \in SearchBoards
    /\ lineStr = << >>
    /\ Idle

Next ==
    \/ \E p \in Players : FindBestMove(p)
    \/ \E p \in Players : EvaluateBoard(p)
    \/ RootPlace
    \/ Enter
    \/ Place
    \/ ReturnToNode
    \/ ReturnToRoot
    \/ Finish

Spec == Init /\ [][Next]_vars

\* ------------------------------------------------------------------------
\* The constructor: an instance is constructed from a settings object that
\* lacks fields or holds invalid ones, and is then used. A table without a
\* pattern key is used on the empty board only, where findBestMove scores no
\* move (see SortedPosition).
\* ------------------------------------------------------------------------

InitConstruct ==
    /\ given \in GivenSettings
    /\ settings = constructor(given)
    /\ board \in ConstructBoards
    /\ (\E key \in (DOMAIN DefaultWeights) \ {"opponentThreat"} :
            key \notin DOMAIN settings.patternWeights) => board = EmptyBoard
    /\ lineStr \in ConstructLines
    /\ Idle

NextConstruct ==
    \/ \E p \in Players : FindBestMove(p)
    \/ \E p \in Players : EvaluateBoard(p)
    \/ CalculateLineScore
    \/ RootPlace
    \/ Enter
    \/ Place
    \/ ReturnToNode
    \/ ReturnToRoot
    \/ Finish

SpecConstruct == InitConstruct /\ [][NextConstruct]_vars

\* ------------------------------------------------------------------------
\* One instance called again and again: findBestMove up to MaxCalls times, the
\* caller putting stones on its board between the calls
\* ------------------------------------------------------------------------

\* the cells the caller puts a stone on between calls
RepeatCells == {<<7, 8>>}

InitRepeat ==
    /\ settings \in [searchDepth : {2}, candidateCount : {2}, searchRange : {1},
                      patternWeights : {DefaultWeights}]
    /\ given = settings
    /\ board \in {EmptyBoard, CenterStone}
    /\ lineStr = << >>
    /\ Idle

NextRepeat ==
    \/ \E p \in Players : FindBestMove(p)
    \/ RootPlace
    \/ Enter
    \/ Place
    \/ ReturnToNode
    \/ ReturnToRoot
    \/ Finish
    \/ NextCall
    \/ \E cell \in RepeatCells : \E p \in Players : PlaceStone(cell[1], cell[2], p)

SpecRepeat == InitRepeat /\ [][NextRepeat]_vars

\* ------------------------------------------------------------------------
\* alphaBetaSearch called on its own, on boards that are won, lost, drawn or
\* open, with depth 0 and more
\* ------------------------------------------------------------------------

\* five black stones in a row among white ones, and the same with the colours
\* exchanged
FiveBlack ==
    Stamp(Stamp(EmptyBoard, RunCells(7, 4, 1, 5), 1), {<<6, 5>>, <<8, 6>>, <<8, 7>>, <<6, 8>>}, 2)

FiveWhite ==
    Stamp(Stamp(EmptyBoard, RunCells(4, 4, 3, 5), 2), {<<4, 5>>, <<5, 4>>, <<6, 7>>, <<7, 6>>}, 1)

\* a full board with five black stones in a row
FullFive == Stamp(DrawBoard, RunCells(9, 5, 1, 5), 1)

AlphaBetaBoards ==
    {FiveBlack, FiveWhite, BothFive, FullFive, DrawBoard, SetCell(DrawBoard, 7, 7, 0),
     CenterStone, MiddleGame}

\* the windows alphaBetaSearch is called with: <<alpha, beta>>
AlphaBetaWindows == {<<-Infinity, Infinity>>, <<-WinScore, 0>>}

InitAlphaBeta ==
    /\ settings \in [searchDepth : {DefaultDepth}, candidateCount : 1..2,
                      searchRange : {1}, patternWeights : {DefaultWeights}]
    /\ given = settings
    /\ board \in AlphaBetaBoards
    /\ lineStr = << >>
    /\ Idle

NextAlphaBeta ==
    \/ \E depth \in 0..(MaxDepth - 1) : \E w \in AlphaBetaWindows : \E p \in Players :
           AlphaBetaSearch(depth, w[1], w[2], p)
    \/ Enter
    \/ Place
    \/ ReturnToNode
    \/ ReturnToCaller

SpecAlphaBeta == InitAlphaBeta /\ [][NextAlphaBeta]_vars

\* The entry of alphaBetaSearch seen through pc alone: the code from the
\* counter's increment to the first placement or return has no condition that
\* stops it, so the step can be taken whenever pc = "enter", and it leaves pc
\* at "return" or "loop".
EnterStep == pc = "enter" /\ pc' \in {"return", "loop"}

\* findBestMove is synchronous code on one thread: a call that has begun is
\* carried on statement by statement until it returns. Each step of the call
\* in progress is taken once it can be.
SpecFair ==
    /\ Spec
    /\ WF_vars(RootPlace)
    /\ WF_pc(EnterStep)
    /\ WF_vars(Place)
    /\ WF_vars(ReturnToNode)
    /\ WF_vars(ReturnToRoot)
    /\ WF_vars(Finish)

\* ------------------------------------------------------------------------
\* The search alone, on boards with stones and two or more candidates a node
\* ------------------------------------------------------------------------

InitPruning ==
    /\ settings \in [searchDepth : 2..MaxDepth, candidateCount : 2..MaxCandidates,
                      searchRange : {DefaultRange},
                      patternWeights : {DefaultWeights, GameWeights}]
    /\ given = settings
    /\ board \in {CenterStone, OpenFour, MiddleGame}
    /\ lineStr = << >>
    /\ Idle

NextPruning ==
    \/ \E p \in Players : FindBestMove(p)
    \/ RootPlace
    \/ Enter
    \/ Place
    \/ ReturnToNode
    \/ ReturnToRoot
    \/ Finish

SpecPruning == InitPruning /\ [][NextPruning]_vars

\* ------------------------------------------------------------------------
\* checkWinner on a board
\* ------------------------------------------------------------------------

InitWinner ==
    /\ settings = DefaultSettings
    /\ given = settings
    /\ board \in WinnerBoards
    /\ lineStr = << >>
    /\ Idle

NextWinner == CheckWinner

SpecWinner == InitWinner /\ [][NextWinner]_vars

\* ------------------------------------------------------------------------
\* generateCandidateMoves on a board
\* ------------------------------------------------------------------------

InitCandidates ==
    /\ settings \in CandidateSettings
    /\ given = settings
    /\ board \in CandidateBoards
    /\ lineStr = << >>
    /\ Idle

NextCandidates == \E p \in Players : GenerateCandidateMoves(p)

SpecCandidates == InitCandidates /\ [][NextCandidates]_vars

\* ------------------------------------------------------------------------
\* quickEvaluatePosition on a cell of a board
\* ------------------------------------------------------------------------

InitQuick ==
    /\ settings \in [searchDepth : {1}, candidateCount : {1}, searchRange : {DefaultRange},
                      patternWeights : {DefaultWeights, GameWeights}]
    /\ given = settings
    /\ board \in QuickBoards
    /\ lineStr = << >>
    /\ Idle

NextQuick ==
    \E row \in Rows : \E col \in Rows : \E p \in Players :
        QuickEvaluatePosition(row, col, p)

SpecQuick == InitQuick /\ [][NextQuick]_vars

\* ------------------------------------------------------------------------
\* calculateLineScore on an encoded line
\* ------------------------------------------------------------------------

InitLines ==
    /\ settings \in [searchDepth : {1}, candidateCount : {1}, searchRange : {DefaultRange},
                      patternWeights : {DefaultWeights, GameWeights}]
    /\ given = settings
    /\ board = EmptyBoard
    /\ lineStr \in Lines
    /\ Idle

NextLines == CalculateLineScore

SpecLines == InitLines /\ [][NextLines]_vars

\* ------------------------------------------------------------------------
\* GomokuGame: clicks on the canvas, the undo, new-game and AI buttons, and the
\* AI request, which waits for a timer, searches and moves. The handlers are
\* JavaScript on one thread: each runs to its end, or to its await, before the
\* next begins, so a handler begins only while pc = "idle"; the search of the
\* AI request is the findBestMove of the sections above, run on the board of
\* the game itself.
\* ------------------------------------------------------------------------

\* a game is followed up to MaxMoves stones on the board and MaxRequests
\* accepted AI requests
MaxMoves == 9

MaxRequests == 1

\* a variant of makeMove: the move is not recorded
makeMove_Unrecorded(b, g, row, col) ==
    IF g.gameOver \/ b[row][col] # 0 THEN [board |-> b, game |-> g]
    ELSE LET placed == SetCell(b, row, col, g.currentPlayer)
             winner == checkWinner(placed)
         IN  [board |-> placed,
              game  |-> IF winner # -1
                        THEN [g EXCEPT !.gameOver = TRUE, !.winner = <<winner>>]
                        ELSE [g EXCEPT !.currentPlayer = 3 - @]]

\* a variant of makeMove: the game is never over
makeMove_NeverOver(b, g, row, col) ==
    IF g.gameOver \/ b[row][col] # 0 THEN [board |-> b, game |-> g]
    ELSE [board |-> SetCell(b, row, col, g.currentPlayer),
          game  |-> [g EXCEPT !.moveHistory = Append(@, <<row, col, g.currentPlayer>>),
                              !.currentPlayer = 3 - @]]

\* makeMove(row, col): the board and the fields of the game after it
makeMove(b, g, row, col) ==
    IF g.gameOver \/ b[row][col] # 0 THEN [board |-> b, game |-> g]
    ELSE LET placed == SetCell(b, row, col, g.currentPlayer)
             moved  == [g EXCEPT !.moveHistory = Append(@, <<row, col, g.currentPlayer>>)]
             winner == checkWinner(placed)
         IN  [board |-> placed,
              game  |-> IF winner # -1
                        THEN [moved EXCEPT !.gameOver = TRUE, !.winner = <<winner>>]
                        ELSE [moved EXCEPT !.currentPlayer = 3 - @]]

\* a click on the empty cell (row, col)
HandleCanvasClick(row, col) ==
    /\ pc = "idle"
    /\ ~game.gameOver /\ ~game.aiThinking
    /\ InBounds(row, col) /\ board[row][col] = 0
    /\ Len(game.moveHistory) < MaxMoves
    /\ \E m \in {makeMove(board, game, row, col)} :
           board' = m.board /\ game' = m.game
    /\ UNCHANGED <<given, history, invocations, settings, pc, entry, root, stack, retval,
                   searchNodes, pruningCount, logs, result, lineStr>>

\* the undo button: undoMove()
undoMove ==
    /\ pc = "idle"
    /\ Len(game.moveHistory) # 0
    /\ LET lastMove == game.moveHistory[Len(game.moveHistory)]
       IN  /\ board' = SetCell(board, lastMove[1], lastMove[2], 0)
           /\ game' = [game EXCEPT
                          !.moveHistory = SubSeq(@, 1, Len(@) - 1),
                          !.currentPlayer = 3 - @,
                          !.gameOver = FALSE,
                          !.winner = << >>]
    /\ UNCHANGED <<given, history, invocations, settings, pc, entry, root, stack, retval,
                   searchNodes, pruningCount, logs, result, lineStr>>

\* the new-game button: initBoard
NewGame ==
    /\ pc = "idle"
    /\ board' = EmptyBoard
    /\ game' = [game EXCEPT !.currentPlayer = 1, !.gameOver = FALSE, !.winner = << >>,
                            !.moveHistory = << >>]
    /\ UNCHANGED <<given, history, invocations, settings, pc, entry, root, stack, retval,
                   searchNodes, pruningCount, logs, result, lineStr>>

\* the AI button: aiMove up to its await; the request is accepted
AiMove ==
    /\ pc = "idle"
    /\ ~game.gameOver /\ ~game.aiThinking
    /\ Len(game.moveHistory) < MaxMoves
    /\ game.requests < MaxRequests
    /\ game' = [game EXCEPT
                   !.aiThinking = TRUE,
                   !.requests = @ + 1,
                   !.request = [board |-> board, moveHistory |-> game.moveHistory,
                                currentPlayer |-> game.currentPlayer]]
    /\ UNCHANGED <<given, history, invocations, settings, board, pc, entry, root, stack,
                   retval, searchNodes, pruningCount, logs, result, lineStr>>

\* the timer of aiMove fires: this.ai.findBestMove(this.board, this.currentPlayer)
AiSearch ==
    /\ game.aiThinking
    /\ FindBestMove(game.currentPlayer)

\* aiMove after the search: the move of the result is made, if there is one,
\* and aiThinking cleared; the locals of the calls are gone, the counters and
\* the log of the GomokuAI stay
AiFinish ==
    /\ pc = "done"
    /\ entry.op = "findBestMove"
    /\ game.aiThinking
    /\ \E m \in {IF result.kind = "SearchResult" /\ result.move # NoMove
                   THEN makeMove(board, game, result.move[1], result.move[2])
                   ELSE [board |-> board, game |-> game]} :
           /\ board' = m.board
           /\ game' = [m.game EXCEPT !.aiThinking = FALSE, !.request = << >>]
           /\ entry' = [op |-> "none", player |-> 0, row |-> -1, col |-> -1,
                        board |-> m.board]
    /\ pc' = "idle"
    /\ root' = NoRoot
    /\ result' = Null
    /\ invocations' = 0
    /\ UNCHANGED <<given, history, settings, stack, retval, searchNodes, pruningCount,
                   logs, lineStr>>

\* the cells the clicks go to, in this order: a row of five for the first
\* player, a row of four below it for the second
ClickOrder ==
    << <<7, 3>>, <<8, 3>>, <<7, 4>>, <<8, 4>>, <<7, 5>>, <<8, 5>>, <<7, 6>>, <<8, 6>>,
       <<7, 7>> >>

\* a click goes to the first cell of ClickOrder that is empty
ClickCells(b) ==
    LET empty == {i \in 1..Len(ClickOrder) : b[ClickOrder[i][1]][ClickOrder[i][2]] = 0}
    IN  {ClickOrder[i] : i \in {j \in empty : \A k \in empty : j <= k}}

\* a new game, the search depth and candidate count set low on the settings
\* page
InitGame ==
    /\ settings = [searchDepth |-> 1, candidateCount |-> 2, searchRange |-> 1,
                   patternWeights |-> GameWeights]
    /\ given = settings
    /\ board = EmptyBoard
    /\ lineStr = << >>
    /\ Idle

NextGame ==
    \/ \E cell \in ClickCells(board) : HandleCanvasClick(cell[1], cell[2])
    \/ undoMove
    \/ NewGame
    \/ AiMove
    \/ AiSearch
    \/ RootPlace
    \/ Enter
    \/ ReturnToRoot
    \/ Finish
    \/ AiFinish

SpecGame == InitGame /\ [][NextGame]_vars

\* ------------------------------------------------------------------------
\* detectPatternInDirection on a stone of a run of one to five stones, in the
\* middle of the board and at its edges, free or with a stone of the opponent
\* next to it
\* ------------------------------------------------------------------------

\* detectPatternInDirection called on its own, as detectAllPatterns calls it:
\* on a stone of the player, in one of the four directions
DetectPatternInDirection(row, col, d, p) ==
    /\ pc = "idle"
    /\ board[row][col] = p
    /\ entry' = [op |-> "detectPatternInDirection", player |-> p, row |-> row,
                 col |-> col, board |-> board, dx |-> directions[d][1],
                 dy |-> directions[d][2]]
    /\ result' = [kind |-> "pattern",
                  value |-> detectPatternInDirection(board, row, col, directions[d][1],
                                                     directions[d][2], p)]
    /\ pc' = "done"
    /\ UNCHANGED <<game, given, history, invocations, settings, board, root, stack, retval,
                   searchNodes, pruningCount, logs, lineStr>>

\* the runs drawn: <<start, direction, length, player>>, on the board
PatternRuns ==
    {x \in ({0, 7} \X {0, 7, 14}) \X (1..Len(directions)) \X (1..5) \X Players :
        InBounds(x[1][1] + (x[3] - 1) * directions[x[2]][1],
                 x[1][2] + (x[3] - 1) * directions[x[2]][2])}

\* the board b with a stone of p on the cell, if the cell is on the board
StampIfOn(b, r, c, p) == IF InBounds(r, c) THEN SetCell(b, r, c, p) ELSE b

\* one run on an empty board: alone, or with a stone of the opponent just
\* beyond its end, or just before its start
PatternBoards ==
    {Stamp(EmptyBoard, RunCells(x[1][1], x[1][2], x[2], x[3]), x[4]) : x \in PatternRuns}
    \cup {StampIfOn(Stamp(EmptyBoard, RunCells(x[1][1], x[1][2], x[2], x[3]), x[4]),
                    x[1][1] + x[3] * directions[x[2]][1],
                    x[1][2] + x[3] * directions[x[2]][2], 3 - x[4]) : x \in PatternRuns}
    \cup {StampIfOn(Stamp(EmptyBoard, RunCells(x[1][1], x[1][2], x[2], x[3]), x[4]),
                    x[1][1] - directions[x[2]][1],
                    x[1][2] - directions[x[2]][2], 3 - x[4]) : x \in PatternRuns}

InitPattern ==
    /\ settings = DefaultSettings
    /\ given = settings
    /\ board \in PatternBoards
    /\ lineStr = << >>
    /\ Idle

NextPattern ==
    \E row \in Rows : \E col \in Rows : \E d \in 1..Len(directions) : \E p \in Players :
        DetectPatternInDirection(row, col, d, p)

SpecPattern == InitPattern /\ [][NextPattern]_vars

\* ------------------------------------------------------------------------
\* getAllDiagonals on a board: every board with one black stone, and the
\* boards of the search
\* ------------------------------------------------------------------------

\* getAllDiagonals called on its own
GetAllDiagonals(p) ==
    /\ pc = "idle"
    /\ entry' = [op |-> "getAllDiagonals", player |-> p, row |-> -1, col |-> -1,
                 board |-> board]
    /\ result' = [kind |-> "lines", value |-> getAllDiagonals(board, p)]
    /\ pc' = "done"
    /\ UNCHANGED <<game, given, history, invocations, settings, board, root, stack, retval,
                   searchNodes, pruningCount, logs, lineStr>>

OneStoneBoards == {SetCell(EmptyBoard, r, c, 1) : r \in Rows, c \in Rows}

InitDiagonals ==
    /\ settings = DefaultSettings
    /\ given = settings
    /\ board \in OneStoneBoards \cup SearchBoards
    /\ lineStr = << >>
    /\ Idle

NextDiagonals == \E p \in Players : GetAllDiagonals(p)

SpecDiagonals == InitDiagonals /\ [][NextDiagonals]_vars

\* ------------------------------------------------------------------------
\* evaluatePatternsForPlayer on a board
\* ------------------------------------------------------------------------

\* the number of times the first rule of this.patterns (liveFive) scores in the
\* lines of a list
RECURSIVE liveFiveMatches(_, _)
liveFiveMatches(lines, i) ==
    IF i > Len(lines) THEN 0
    ELSE CountMatches(RuleStart(lines[i], 1), 1) + liveFiveMatches(lines, i + 1)

\* evaluatePatternsForPlayer called on its own; fives is the number of times
\* the liveFive rule scored over the rows, the columns and the diagonals
EvaluatePatternsForPlayer(p) ==
    /\ pc = "idle"
    /\ entry' = [op |-> "evaluatePatternsForPlayer", player |-> p, row |-> -1,
                 col |-> -1, board |-> board]
    /\ \E diagonals \in {Array(getAllDiagonals(board, p))} :
       result' = [kind |-> "patterns",
                  value |-> evaluatePatternsForPlayer(board, p, settings.patternWeights),
                  fives |-> liveFiveMatches(
                                Array([i \in 1..boardSize |-> getRowString(board, i - 1, p)]), 1)
                            + liveFiveMatches(
                                Array([i \in 1..boardSize |-> getColString(board, i - 1, p)]), 1)
                            + liveFiveMatches(diagonals, 1)]
    /\ pc' = "done"
    /\ UNCHANGED <<game, given, history, invocations, settings, board, root, stack, retval,
                   searchNodes, pruningCount, logs, lineStr>>

\* runs of five on the shortest diagonals the encoder keeps, and runs of four
\* on the diagonals it drops
CornerRuns ==
    {<<<<0, 4>>, 4, 5>>, <<<<10, 14>>, 4, 5>>, <<<<0, 10>>, 3, 5>>, <<<<10, 0>>, 3, 5>>,
     <<<<0, 3>>, 4, 4>>, <<<<11, 14>>, 4, 4>>, <<<<0, 11>>, 3, 4>>, <<<<11, 0>>, 3, 4>>}

CornerBoards ==
    {Stamp(EmptyBoard, RunCells(x[1][1], x[1][2], x[2], x[3]), p) :
        x \in CornerRuns, p \in Players}

PatternScoreBoards ==
    SearchBoards \cup RunBoards \cup BrokenBoards \cup CornerBoards \cup {BothFive}

InitPatternScore ==
    /\ settings \in {[DefaultSettings EXCEPT !.patternWeights = w] :
                        w \in {DefaultWeights, GameWeights}}
    /\ given = settings
    /\ board \in PatternScoreBoards
    /\ lineStr = << >>
    /\ Idle

NextPatternScore == \E p \in Players : EvaluatePatternsForPlayer(p)

SpecPatternScore == InitPatternScore /\ [][NextPatternScore]_vars

\* ------------------------------------------------------------------------
\* evaluateBoard called twice by one caller, on a board and on the board with
\* more stones on it
\* ------------------------------------------------------------------------

\* a caller compares MaxEvaluations values of evaluateBoard
MaxEvaluations == 2

\* the caller keeps the value evaluateBoard returned and goes on
KeepEvaluation ==
    /\ pc = "done"
    /\ entry.op = "evaluateBoard"
    /\ Len(history) < MaxEvaluations - 1
    /\ history' = Append(history, [board |-> entry.board, player |-> entry.player,
                                   result |-> result])
    /\ pc' = "idle"
    /\ UNCHANGED <<game, given, invocations, settings, board, entry, root, stack, retval,
                   searchNodes, pruningCount, logs, result, lineStr>>

\* black at (7,7) and (7,8) with white at (3,3); the same with the colours
\* exchanged; black at (7,7), (7,8), (7,9) with white at (11,3) and (11,4)
EvaluationBoards ==
    {Stamp(Stamp(EmptyBoard, RunCells(7, 7, 1, 2), p), RunCells(3, 3, 1, 1), 3 - p) :
        p \in Players}
    \cup {Stamp(Stamp(EmptyBoard, RunCells(7, 7, 1, 3), 1), RunCells(11, 3, 1, 2), 2)}

\* the cells the caller puts a stone on between the two calls
EvaluationCells == {<<3, 4>>, <<7, 6>>, <<11, 5>>}

InitEvaluation ==
    /\ settings = DefaultSettings
    /\ given = settings
    /\ board \in EvaluationBoards
    /\ lineStr = << >>
    /\ Idle

NextEvaluation ==
    \/ \E p \in Players : EvaluateBoard(p)
    \/ KeepEvaluation
    \/ \E cell \in EvaluationCells : \E p \in Players : PlaceStone(cell[1], cell[2], p)

SpecEvaluation == InitEvaluation /\ [][NextEvaluation]_vars

\* ------------------------------------------------------------------------
\* Claims about findBestMove
\* ------------------------------------------------------------------------

SearchDone == pc = "done" /\ entry.op = "findBestMove"

SearchReturned == SearchDone /\ result.kind = "SearchResult"

\* the cells the specification calls candidates: the empty cells within
\* Chebyshev distance range of an occupied cell
EligibleCells(b, range) ==
    {cell \in Rows \X Rows :
        /\ b[cell[1]][cell[2]] = 0
        /\ \E r \in Rows : \E c \in Rows :
              /\ b[r][c] # 0
              /\ Max(IF r >= cell[1] THEN r - cell[1] ELSE cell[1] - r,
                     IF c >= cell[2] THEN c - cell[2] ELSE cell[2] - c) <= range}

\* C1: after findBestMove (returning a SearchResult or null) or evaluateBoard
\* has returned, every cell of the board equals its value before the call: every
\* stone the search placed, at every depth and on every exit path, is removed.
C1_BoardRestored ==
    (pc = "done" /\ entry.op \in {"findBestMove", "evaluateBoard"}) =>
        \A r \in Rows : \A c \in Rows : board[r][c] = entry.board[r][c]

\* a search that cut off at least once has returned, with the board as it was
C1_Witness ==
    /\ SearchReturned
    /\ result.pruningCount > 0
    /\ settings.searchDepth = MaxDepth
    /\ board = entry.board

RECURSIVE SumNodes(_, _)
SumNodes(kids, i) ==
    IF i > Len(kids) THEN 0 ELSE kids[i].nodes + SumNodes(kids, i + 1)

MaxOver(S) == CHOOSE m \in S : \A n \in S : m >= n

\* negamax without cutoff: the value of a node and the number of invocations
\* below and including it, with the candidate generator and the leaf and
\* terminal scores of alphaBetaSearch
RECURSIVE ExhaustiveNode(_, _, _, _)
ExhaustiveNode(b, p, depth, st) ==
    IF depth = 0
    THEN [value |-> evaluateBoard(b, p, st.patternWeights), nodes |-> 1]
    ELSE Const(checkWinner(b),
           LAMBDA winner :
             IF winner = p THEN [value |-> WinScore + depth, nodes |-> 1]
             ELSE IF winner = 3 - p THEN [value |-> -WinScore - depth, nodes |-> 1]
             ELSE Const(generateCandidateMoves(b, p, st).moves,
                    LAMBDA cands :
                      IF Len(cands) = 0 THEN [value |-> 0, nodes |-> 1]
                      ELSE Const(Array([i \in 1..Len(cands) |->
                                     ExhaustiveNode(SetCell(b, cands[i][1], cands[i][2], p),
                                                    3 - p, depth - 1, st)]),
                             LAMBDA kids :
                               [value |-> MaxOver({-kids[i].value : i \in 1..Len(kids)}),
                                nodes |-> 1 + SumNodes(kids, 1)])))

\* the exhaustive search at the root: the first candidate of the greatest score
ExhaustiveRoot(b, p, st) ==
    Const(generateCandidateMoves(b, p, st).moves,
      LAMBDA cands :
        Const(Array([i \in 1..Len(cands) |->
                  ExhaustiveNode(SetCell(b, cands[i][1], cands[i][2], p),
                                 3 - p, st.searchDepth - 1, st)]),
          LAMBDA kids :
            LET best  == MaxOver({-kids[i].value : i \in 1..Len(kids)})
                first == CHOOSE i \in 1..Len(kids) :
                             /\ -kids[i].value = best
                             /\ \A j \in 1..(i - 1) : -kids[j].value # best
            IN  [move |-> cands[first], score |-> best, nodes |-> SumNodes(kids, 1)]))

\* C2: the move findBestMove returns with the cutoff active is the move of the
\* exhaustive negamax of the same depth, candidates and scoring, and the pruned
\* search invokes alphaBetaSearch no more often than the exhaustive one.
C2_PruningSound ==
    SearchReturned =>
        \E x \in {ExhaustiveRoot(entry.board, entry.player, settings)} :
            /\ result.move = x.move
            /\ result.searchNodes <= x.nodes

\* a search that cut off has returned the exhaustive move after fewer invocations
C2_Witness ==
    /\ SearchReturned
    /\ result.pruningCount > 0
    /\ settings.searchDepth = MaxDepth
    /\ \E x \in {ExhaustiveRoot(entry.board, entry.player, settings)} :
           /\ result.move = x.move
           /\ result.searchNodes < x.nodes

\* C4: findBestMove returns null exactly when the root candidate set is empty,
\* and a SearchResult otherwise; on the empty board it returns null for every
\* searchDepth, no cell being near an occupied cell.
C4_NullIffNoCandidates ==
    SearchDone =>
        /\ result.kind \in {"null", "SearchResult"}
        /\ (result.kind = "null") <=> (root.candidates = << >>)
        /\ (result.kind = "null") <=>
               (EligibleCells(entry.board, settings.searchRange) = {})
        /\ entry.board = EmptyBoard => result.kind = "null"

\* a search of more than one ply on the empty board has returned null
C4_Witness ==
    /\ SearchDone
    /\ entry.board = EmptyBoard
    /\ settings.searchDepth > 1
    /\ result.kind = "null"

ImmediateWin(b, move, p) == checkWinner(SetCell(b, move[1], move[2], p)) = p

\* the move does not win, but after it every candidate reply of the opponent
\* leaves the game open and leaves p a candidate that completes five-in-a-row:
\* a forced win of p completed at the third ply
WinAtThirdPly(b, move, p, st) ==
    Const(SetCell(b, move[1], move[2], p),
      LAMBDA b1 :
        /\ checkWinner(b1) = -1
        /\ Const(generateCandidateMoves(b1, 3 - p, st).moves,
              LAMBDA replies :
                /\ Len(replies) > 0
                /\ \A k \in 1..Len(replies) :
                      Const(SetCell(b1, replies[k][1], replies[k][2], 3 - p),
                        LAMBDA b2 :
                          /\ checkWinner(b2) = -1
                          /\ Const(generateCandidateMoves(b2, p, st).moves,
                                LAMBDA answers :
                                  \E a \in 1..Len(answers) :
                                      ImmediateWin(b2, answers[a], p)))))

\* the score entries of the log: one per root candidate
ScoreEntries == {i \in 1..Len(logs) : logs[i].kind = "score"}

\* C8: in a search with searchDepth >= 2, a line in which the root player
\* completes five at an earlier ply gets a strictly higher root score than a line
\* in which that player's forced win is completed at a later ply, down to the
\* horizon, so the root prefers the sooner win.
C8_SoonerWinScoresHigher ==
    (SearchReturned /\ settings.searchDepth >= 2) =>
        \A i \in ScoreEntries :
            (/\ settings.searchDepth >= 3
             /\ ImmediateWin(entry.board, logs[i].move, entry.player)) =>
                /\ \A j \in ScoreEntries :
                       WinAtThirdPly(entry.board, logs[j].move, entry.player, settings)
                           => logs[i].score > logs[j].score
                /\ ImmediateWin(entry.board, result.move, entry.player)

\* ------------------------------------------------------------------------
\* Claims about checkWinner
\* ------------------------------------------------------------------------

\* p has five stones in a row somewhere on b: five consecutive cells of one of
\* the four directions, all on the board and all holding p
HasLine(b, p) ==
    \E r \in Rows : \E c \in Rows : \E d \in 1..Len(directions) :
        \A i \in 0..4 :
            /\ InBounds(r + i * directions[d][1], c + i * directions[d][2])
            /\ b[r + i * directions[d][1]][c + i * directions[d][2]] = p

HasEmpty(b) == \E r \in Rows : \E c \in Rows : b[r][c] = 0

WinnerDone == pc = "done" /\ entry.op = "checkWinner"

\* C3: checkWinner returns p when p has five or more in a row and the other
\* player has not, 0 when neither has and no cell is empty, -1 when neither has
\* and some cell is empty; a full board is a draw only after both are checked.
C3_WinnerClassified ==
    WinnerDone =>
        /\ \A p \in Players :
               (HasLine(board, p) /\ ~HasLine(board, 3 - p)) => result.value = p
        /\ (~HasLine(board, 1) /\ ~HasLine(board, 2) /\ ~HasEmpty(board))
               => result.value = 0
        /\ (~HasLine(board, 1) /\ ~HasLine(board, 2) /\ HasEmpty(board))
               => result.value = -1

\* a full board on which white alone has five in a row is given to white
C3_Witness ==
    /\ WinnerDone
    /\ ~HasEmpty(board)
    /\ HasLine(board, 2)
    /\ ~HasLine(board, 1)
    /\ result.value = 2

\* ------------------------------------------------------------------------
\* Claims about generateCandidateMoves
\* ------------------------------------------------------------------------

CandidatesDone == pc = "done" /\ entry.op = "generateCandidateMoves"

\* the moves returned, as a set
MoveSet == {result.moves[i] : i \in 1..Len(result.moves)}

\* the cells within Chebyshev distance range of (row, col), the cell itself excluded
Ring(row, col, range) ==
    {cell \in Rows \X Rows :
        /\ cell # <<row, col>>
        /\ cell[1] >= row - range /\ cell[1] <= row + range
        /\ cell[2] >= col - range /\ cell[2] <= col + range}

\* C6: generateCandidateMoves returns only empty cells within Chebyshev
\* distance searchRange of an occupied cell, and all of them when there are at
\* most candidateCount: the 24 cells around a lone stone at (7,7) with
\* searchRange 2 and candidateCount >= 24, fewer near an edge, none on the
\* empty board.
C6_CandidatesEligible ==
    CandidatesDone =>
        /\ MoveSet \subseteq EligibleCells(entry.board, settings.searchRange)
        /\ Cardinality(EligibleCells(entry.board, settings.searchRange))
               <= settings.candidateCount
             => MoveSet = EligibleCells(entry.board, settings.searchRange)
        /\ (/\ entry.board = CenterStone
            /\ settings.searchRange = 2
            /\ settings.candidateCount >= 24)
             => (MoveSet = Ring(7, 7, 2) /\ Len(result.moves) = 24)
        /\ (/\ entry.board = CornerStone
            /\ settings.searchRange = 2
            /\ settings.candidateCount >= 24)
             => (MoveSet = Ring(0, 0, 2) /\ Len(result.moves) = 8)
        /\ entry.board = EmptyBoard => result.moves = << >>

\* the 24 cells around the lone stone at (7,7) have been returned
C6_Witness ==
    /\ CandidatesDone
    /\ entry.board = CenterStone
    /\ settings.searchRange = 2
    /\ settings.candidateCount >= 24
    /\ Cardinality(MoveSet) = 24

\* C7: generateCandidateMoves returns min(candidateCount, number of eligible
\* cells) distinct moves in non-increasing order of their quickEvaluatePosition
\* score for the side to move, and no eligible cell left out scores strictly
\* higher than a returned one.
C7_TopCandidates ==
    CandidatesDone =>
        \E score \in {Array([cell \in EligibleCells(entry.board, settings.searchRange) |->
                          quickEvaluatePosition(entry.board, cell[1], cell[2],
                              entry.player, settings.patternWeights).score])} :
            /\ Len(result.moves) = Min(settings.candidateCount, Cardinality(DOMAIN score))
            /\ Cardinality(MoveSet) = Len(result.moves)
            /\ MoveSet \subseteq DOMAIN score
            /\ \A i \in 1..Len(result.moves) : \A j \in (i + 1)..Len(result.moves) :
                   score[result.moves[i]] >= score[result.moves[j]]
            /\ \A cell \in (DOMAIN score) \ MoveSet : \A m \in MoveSet :
                   score[cell] <= score[m]

\* a selection that left eligible cells out, among scores that differ
C7_Witness ==
    /\ CandidatesDone
    /\ Len(result.moves) = settings.candidateCount
    /\ Len(result.moves) >= 2
    /\ Cardinality(EligibleCells(entry.board, settings.searchRange)) > Len(result.moves)
    /\ result.scores[1] > result.scores[Len(result.scores)]

\* ------------------------------------------------------------------------
\* Claims about calculateLineScore
\* ------------------------------------------------------------------------

\* the own stones the matches of rule k write over, in the loop of
\* calculateLineScore for that rule
RECURSIVE Consumed(_, _)
Consumed(tempStr, k) ==
    Const(FirstMatch(tempStr, k),
          LAMBDA m : IF m[1] = 0 THEN {}
                     ELSE {i \in m[1]..(m[1] + m[2] - 1) : tempStr[i] = 1}
                          \cup Consumed(NeutralizeMatch(tempStr, m), k))

ConsumedBy(line, k) == Consumed(RuleStart(line, k), k)

\* the line holds one run of exactly five own stones between empty cells, and
\* nothing else
LoneFive(line) ==
    \E s \in 3..(Len(line) - 6) :
        \A i \in 2..(Len(line) - 1) :
            line[i] = IF i >= s /\ i <= s + 4 THEN 1 ELSE 0

LinesDone == pc = "done" /\ entry.op = "calculateLineScore"

\* C9: calculateLineScore credits every shape once: the own stones a rule has
\* matched are neutralized for the later rules too, so no own stone of a line
\* contributes to matches of two different rules; a line holding one run of
\* exactly five own stones between empty cells scores exactly the Five weight.
C9_CreditedOnce ==
    LinesDone =>
        /\ \A k1 \in 1..Len(patterns) : \A k2 \in (k1 + 1)..Len(patterns) :
               ConsumedBy(lineStr, k1) \cap ConsumedBy(lineStr, k2) = {}
        /\ LoneFive(lineStr) => result.value = settings.patternWeights.liveFive

\* ------------------------------------------------------------------------
\* Claims about quickEvaluatePosition
\* ------------------------------------------------------------------------

QuickDone == pc = "done" /\ entry.op = "quickEvaluatePosition"

\* C10, as stated: for every in-bounds cell, empty or occupied, and either
\* player, the board after quickEvaluatePosition equals the board before it.
C10_BoardUnchanged ==
    QuickDone => \A r \in Rows : \A c \in Rows : board[r][c] = entry.board[r][c]

\* C10, amended: for every in-bounds cell that is empty, and either player, the
\* board after quickEvaluatePosition equals the board before it.
C10_BoardUnchangedOnEmptyCell ==
    (QuickDone /\ entry.board[entry.row][entry.col] = 0) =>
        \A r \in Rows : \A c \in Rows : board[r][c] = entry.board[r][c]

\* an empty cell next to stones has been scored and is empty again
C10_Witness ==
    /\ QuickDone
    /\ entry.board[entry.row][entry.col] = 0
    /\ result.value > 0
    /\ board[entry.row][entry.col] = 0
    /\ board = entry.board

\* the sum of the scores of the four lines through (row, col) once who's stone
\* is on it, the lines encoded for who
LinesThrough(b, row, col, who, weights) ==
    DirectionsScore(SetCell(b, row, col, who), row, col, who, FALSE, weights, 1)

\* C11: quickEvaluatePosition on an empty cell returns twice the sum of the
\* scores of the four lines through the cell with player's stone on it, plus 0.8
\* times that sum for the opponent with the opponent's stone on it.
C11_OwnScoreDoubled ==
    (QuickDone /\ entry.board[entry.row][entry.col] = 0) =>
        result.value =
            2 * LinesThrough(entry.board, entry.row, entry.col, entry.player,
                             settings.patternWeights)
            + (8 * LinesThrough(entry.board, entry.row, entry.col, 3 - entry.player,
                                settings.patternWeights)) \div 10

\* ------------------------------------------------------------------------
\* Claims about the constructor
\* ------------------------------------------------------------------------

\* the documented defaults of the three numeric settings
Documented == [searchDepth |-> 6, candidateCount |-> 10, searchRange |-> 2]

\* the caller's value of a numeric setting is missing or invalid
Invalid(key) == key \notin DOMAIN given \/ given[key] <= 0

\* C12: when searchDepth, candidateCount or searchRange is missing or invalid
\* (zero or negative) in the settings handed to the constructor, the effective
\* setting is its documented default (6, 10, 2), and the search runs with that
\* value, never with the invalid one.
C12_InvalidFallsBack ==
    /\ \A key \in DOMAIN Documented :
           Invalid(key) => settings[key] = Documented[key]
    /\ (pc = "enter" /\ entry.op = "findBestMove" /\ Len(stack) = 1
          /\ Invalid("searchDepth"))
           => stack[1].depth = Documented.searchDepth - 1
    /\ (SearchDone /\ Invalid("candidateCount"))
           => Len(root.candidates)
                = Min(Documented.candidateCount,
                      Cardinality(EligibleCells(entry.board, settings.searchRange)))

\* a number that is neither NaN nor an infinity
Finite(x) == x # NaN /\ x > -Infinity /\ x < Infinity

\* C13: when the patternWeights handed to the constructor lacks a recognized
\* key, that key has its default weight and the supplied keys have the supplied
\* weights, so every line score, evaluateBoard value and root score is a finite
\* number.
C13_MissingWeightFallsBack ==
    /\ "patternWeights" \in DOMAIN given =>
           \A key \in DOMAIN DefaultWeights :
               /\ key \in DOMAIN settings.patternWeights
               /\ settings.patternWeights[key] =
                      IF key \in DOMAIN given.patternWeights
                      THEN given.patternWeights[key] ELSE DefaultWeights[key]
    /\ (pc = "done" /\ entry.op \in {"calculateLineScore", "evaluateBoard"})
           => Finite(result.value)
    /\ \A i \in ScoreEntries : Finite(logs[i].score)
    /\ SearchReturned => Finite(result.score)

\* ------------------------------------------------------------------------
\* Claims about successive calls
\* ------------------------------------------------------------------------

\* the earlier calls of the instance made with the board and the player of the
\* call just finished
SameCalls ==
    {k \in 1..Len(history) :
        history[k].board = entry.board /\ history[k].player = entry.player}

\* C14: searchNodes, pruningCount and the log are reset at the start of every
\* findBestMove call: a call returns the move, score, searchNodes and
\* pruningCount and leaves a log of the length that every earlier call of the
\* instance with the same board and player did, whatever calls, a null one
\* included, came in between or before.
C14_CallsIndependent ==
    /\ (entry.op = "findBestMove" /\ pc = "root" /\ root.i = 1)
           => (searchNodes = 0 /\ pruningCount = 0 /\ Len(logs) = 1)
    /\ SearchDone =>
           \A k \in SameCalls :
               /\ history[k].result.kind = result.kind
               /\ history[k].searchNodes = searchNodes
               /\ history[k].pruningCount = pruningCount
               /\ Len(history[k].logs) = Len(logs)
               /\ result.kind = "SearchResult" =>
                      /\ history[k].result.move = result.move
                      /\ history[k].result.score = result.score
                      /\ history[k].result.searchNodes = result.searchNodes
                      /\ history[k].result.pruningCount = result.pruningCount
                      /\ Len(history[k].result.logs) = Len(result.logs)

\* the third call of an instance repeats the second, which searched and cut
\* off, after a first call that returned null
C14_Witness ==
    /\ SearchReturned
    /\ Len(history) = 2
    /\ history[1].result.kind = "null"
    /\ 2 \in SameCalls
    /\ result.searchNodes > 0
    /\ result.pruningCount > 0
    /\ history[2].result.searchNodes = result.searchNodes

\* ------------------------------------------------------------------------
\* Claims about the counters and the log
\* ------------------------------------------------------------------------

\* C15: the searchNodes of a SearchResult is the number of alphaBetaSearch
\* invocations made during the call plus one for the root node.
C15_RootCounted ==
    SearchReturned => result.searchNodes = invocations + 1

\* C16: the logs of a SearchResult are one entry with the number of root
\* candidates, then one score entry for every root candidate in generator
\* order, none skipped, then one summary entry: the number of root candidates
\* plus 2 entries.
C16_LogShape ==
    SearchReturned =>
        \E candidates \in {generateCandidateMoves(entry.board, entry.player,
                                                  settings).moves} :
            /\ result.logs = logs
            /\ Len(result.logs) = Len(candidates) + 2
            /\ result.logs[1] = [kind |-> "candidates", count |-> Len(candidates)]
            /\ \A i \in 1..Len(candidates) :
                   /\ result.logs[i + 1].kind = "score"
                   /\ result.logs[i + 1].move = candidates[i]
            /\ result.logs[Len(candidates) + 2] =
                   [kind |-> "summary", move |-> result.move, score |-> result.score,
                    searchNodes |-> result.searchNodes,
                    pruningCount |-> result.pruningCount]

\* a search whose first root candidate is the best has logged the later ones too
C16_Witness ==
    /\ SearchReturned
    /\ Len(root.candidates) = MaxCandidates
    /\ result.move = root.candidates[1]
    /\ Len(result.logs) = MaxCandidates + 2
    /\ result.logs[MaxCandidates + 1].kind = "score"
    /\ result.logs[MaxCandidates + 1].score < result.score

\* candidateCount + candidateCount^2 + ... + candidateCount^searchDepth
RECURSIVE GeometricSum(_, _)
GeometricSum(c, d) == IF d = 0 THEN 0 ELSE c * (1 + GeometricSum(c, d - 1))

\* a findBestMove call is in progress
Searching == entry.op = "findBestMove" /\ pc \in {"root", "enter", "loop", "return", "finish"}

\* C17: with searchDepth >= 1 and candidateCount >= 1 the recursion is never
\* more than searchDepth invocations deep, alphaBetaSearch is invoked at most
\* candidateCount + candidateCount^2 + ... + candidateCount^searchDepth times,
\* and every findBestMove call returns.
C17_SearchTerminates ==
    /\ [](/\ Len(stack) <= settings.searchDepth
          /\ \A k \in 1..Len(stack) :
                 stack[k].depth = settings.searchDepth - k /\ stack[k].depth >= 0
          /\ invocations <= GeometricSum(settings.candidateCount, settings.searchDepth)
          /\ searchNodes <= GeometricSum(settings.candidateCount, settings.searchDepth))
    /\ (Searching ~> SearchDone)

\* a search of the greatest depth and width has returned after invocations at
\* every ply
C17_Witness ==
    /\ SearchReturned
    /\ settings.searchDepth = MaxDepth
    /\ settings.candidateCount = MaxCandidates
    /\ invocations > MaxCandidates + MaxCandidates * MaxCandidates
    /\ invocations <= GeometricSum(MaxCandidates, MaxDepth)

\* the candidate the k-th node on the way from the root to the innermost
\* invocation has placed: the root is node 0, stack[k] is node k
PathMove(k) == IF k = 0 THEN root.candidates[root.i] ELSE stack[k].candidates[stack[k].i]

\* the player of the k-th stone on the way: player and opponent in turn
PathPlayer(k) == IF k % 2 = 0 THEN entry.player ELSE 3 - entry.player

\* the caller's original board with the stones of the first n nodes on the way
PathBoard(n) ==
    [r \in Rows |-> [c \in Rows |->
        IF \E k \in 0..(n - 1) : PathMove(k) = <<r, c>>
        THEN PathPlayer(CHOOSE k \in 0..(n - 1) : PathMove(k) = <<r, c>>)
        ELSE entry.board[r][c]]]

\* C18: during a findBestMove call, at every alphaBetaSearch invocation with
\* remaining depth d, from its entry to its return, the board is the caller's
\* original board plus exactly searchDepth - d stones, each on a cell that was
\* empty, placed by player and opponent in turn along the way from the root to
\* this node; when the root or a node is about to try its next candidate, the
\* stones of the candidates tried before are gone from the board.
C18_BoardIsPath ==
    Searching =>
        IF pc \in {"root", "finish"}
        THEN board = entry.board
        ELSE /\ Len(stack) = settings.searchDepth - stack[Len(stack)].depth
             /\ \A k \in 0..(Len(stack) - 1) :
                    /\ entry.board[PathMove(k)[1]][PathMove(k)[2]] = 0
                    /\ \A j \in 0..(Len(stack) - 1) : PathMove(j) = PathMove(k) => j = k
                    /\ k >= 1 => stack[k].player = PathPlayer(k)
             /\ board = PathBoard(Len(stack))

\* an invocation at the greatest depth below the root is entered on the way
\* through later candidates of the root and of a node, the stones of the
\* earlier ones removed
C18_Witness ==
    /\ Searching
    /\ pc = "enter"
    /\ settings.searchDepth = MaxDepth
    /\ Len(stack) = MaxDepth
    /\ stack[Len(stack)].depth = 0
    /\ root.i >= 2
    /\ stack[1].i >= 2
    /\ board[root.candidates[1][1]][root.candidates[1][2]] = 0
    /\ board # entry.board

\* the alphaBetaSearch called on its own is at its return statement or has
\* returned
AlphaBetaReturns ==
    /\ entry.op = "alphaBetaSearch"
    /\ \/ pc = "done"
       \/ pc = "return" /\ Len(stack) = 1

\* the value that call returns
ReturnValue == IF pc = "done" THEN result.value ELSE retval

\* that call has generated no candidates and placed no stone: it is the only
\* invocation, its candidate list is as at its entry and the board is the
\* caller's
Untouched ==
    /\ invocations = 1
    /\ board = entry.board
    /\ pc = "return" => stack[1].candidates = << >> /\ stack[1].i = 0

InLoop(k) == k < Len(stack) \/ pc = "loop"

\* what holds in every state of a search: a node in its loop has alpha < beta
\* and is at a candidate of the list the generator gave it for the board of the
\* node; the root loop ends past its last candidate; the SearchResult carries
\* the counter
CutoffState ==
    /\ Searching =>
           \A k \in 1..Len(stack) :
               InLoop(k) =>
                   /\ stack[k].i \in 1..Len(stack[k].candidates)
                   /\ ~GreaterEq(stack[k].alpha, stack[k].beta)
    /\ Searching /\ pc = "loop" =>
           stack[Len(stack)].candidates =
               generateCandidateMoves(board, stack[Len(stack)].player, settings).moves
    /\ Searching /\ pc = "enter" => stack[Len(stack)].i = 0
    /\ Searching /\ pc = "finish" => root.i = Len(root.candidates) + 1
    /\ SearchReturned =>
           /\ result.pruningCount = pruningCount
           /\ root.i = Len(root.candidates) + 1

\* what holds of every step of a search. A call returning into a node: with
\* alpha >= beta the node returns at once, at the candidate it was at, and the
\* counter goes up by one; otherwise the counter stays and the node goes on to
\* the next candidate of its list, or returns after the last. A call returning
\* into the root: the counter stays and the root goes on to its next candidate
\* whatever the score. Any other step leaves the counter and the position of
\* every node alone, and a placement puts the stone on the candidate the node
\* is at.
CutoffStep ==
    Searching =>
        IF pc = "return" /\ Len(stack) >= 2
        THEN LET f     == stack[Len(stack) - 1]
                 alpha == Max(f.alpha, Neg(retval))
             IN  /\ Len(stack') = Len(stack) - 1
                 /\ stack'[Len(stack')].candidates = f.candidates
                 /\ stack'[Len(stack')].alpha = alpha
                 /\ IF GreaterEq(alpha, f.beta)
                    THEN /\ pruningCount' = pruningCount + 1
                         /\ pc' = "return"
                         /\ stack'[Len(stack')].i = f.i
                    ELSE /\ pruningCount' = pruningCount
                         /\ IF f.i < Len(f.candidates)
                            THEN pc' = "loop" /\ stack'[Len(stack')].i = f.i + 1
                            ELSE pc' = "return"
        ELSE IF pc = "return"
        THEN /\ pruningCount' = pruningCount
             /\ root'.i = root.i + 1
             /\ pc' = IF root.i < Len(root.candidates) THEN "root" ELSE "finish"
        ELSE /\ pruningCount' = pruningCount
             /\ \A k \in 1..Len(stack) :
                    InLoop(k) =>
                        /\ k <= Len(stack')
                        /\ stack'[k].i = stack[k].i
                        /\ stack'[k].candidates = stack[k].candidates
             /\ pc = "loop" =>
                    LET f == stack[Len(stack)]
                    IN  /\ pc' = "enter"
                        /\ board' = SetCell(board, f.candidates[f.i][1],
                                            f.candidates[f.i][2], f.player)
             /\ pc = "root" =>
                    /\ pc' = "enter"
                    /\ board' = SetCell(board, root.candidates[root.i][1],
                                        root.candidates[root.i][2], root.player)

\* C20: in alphaBetaSearch the candidates are tried in generator order; as soon
\* as alpha >= beta holds after a candidate, no later candidate of that node is
\* placed or searched; pruningCount is incremented exactly once for each node
\* whose loop stops this way and by nothing else, so the pruningCount of a
\* SearchResult is the number of such nodes; the root loop never stops early.
C20_CutoffStopsNode == []CutoffState /\ [][CutoffStep]_vars

\* a node has stopped at alpha >= beta with candidates of its list untried, and
\* is at its return
C20_Witness ==
    /\ Searching
    /\ pc = "return"
    /\ Len(stack) >= 2
    /\ pruningCount >= 1
    /\ LET f == stack[Len(stack)]
       IN  /\ f.i >= 1
           /\ f.i < Len(f.candidates)
           /\ GreaterEq(f.alpha, f.beta)
           /\ retval = f.maxScore

\* the score findBestMove computed and logged for its i-th root candidate
RootScore(i) == result.logs[i + 1].score

\* C21: the score of a SearchResult is the maximum of the scores computed for
\* the root candidates, each the negated value of the alphaBetaSearch called
\* with depth searchDepth - 1 for the opponent, and its move is the first
\* candidate in generator order whose score is that maximum: a later candidate
\* with an equal score does not replace it.
C21_FirstMaximum ==
    /\ [](SearchReturned =>
            /\ result.score = MaxOver({RootScore(i) : i \in 1..Len(root.candidates)})
            /\ \E i \in 1..Len(root.candidates) :
                   /\ result.move = root.candidates[i]
                   /\ RootScore(i) = result.score
                   /\ \A j \in 1..(i - 1) : RootScore(j) # result.score)
    /\ [][Searching /\ pc = "return" /\ Len(stack) = 1 =>
            /\ stack[1].depth = settings.searchDepth - 1
            /\ stack[1].player = 3 - entry.player
            /\ logs' = Append(logs, [kind |-> "score", move |-> root.candidates[root.i],
                                     score |-> -retval])]_vars

\* a search has returned its first candidate although a later one scored the
\* same
C21_Witness ==
    /\ SearchReturned
    /\ settings.searchDepth > 1
    /\ \E i \in 1..Len(root.candidates) : \E j \in 1..Len(root.candidates) :
           /\ i < j
           /\ result.move = root.candidates[i]
           /\ RootScore(i) = result.score
           /\ RootScore(j) = result.score

DiagonalsDone == pc = "done" /\ entry.op = "getAllDiagonals"

\* the diagonals and anti-diagonals of the board, each named by its topmost
\* cell and the column step of its direction: <<row, col, dc>>
DiagonalStarts ==
    {x \in Rows \X Rows \X {1, -1} :
        x[1] = 0 \/ (x[3] = 1 /\ x[2] = 0) \/ (x[3] = -1 /\ x[2] = boardSize - 1)}

\* the number of cells of the diagonal x
DiagonalLength(x) == Cardinality({n \in Rows : InBounds(x[1] + n, x[2] + n * x[3])})

\* the diagonal x of board b encoded for player: its cells from the top over
\* own = 1, empty = 0, other = 2, with the boundary symbol 2 at both ends
DiagonalString(b, x, player) ==
    <<2>> \o [i \in 1..DiagonalLength(x) |->
                 LET val == b[x[1] + i - 1][x[2] + (i - 1) * x[3]]
                 IN  IF val = player THEN 1 ELSE IF val = 0 THEN 0 ELSE 2] \o <<2>>

LongDiagonals == {x \in DiagonalStarts : DiagonalLength(x) >= 5}

\* the encodings of the diagonals of five and more cells, as a set of
\* <<diagonal, string>>
ExpectedDiagonals(b, player) ==
    {<<x, DiagonalString(b, x, player)>> : x \in LongDiagonals}

\* how often a string occurs among the expected encodings, and in a list
ExpectedCount(expected, str) == Cardinality({e \in expected : e[2] = str})

ListCount(lines, str) == Cardinality({i \in 1..Len(lines) : lines[i] = str})

\* the 15 row strings, the 15 column strings and the strings returned
AllLines ==
    [i \in 1..boardSize |-> getRowString(entry.board, i - 1, entry.player)]
    \o [i \in 1..boardSize |-> getColString(entry.board, i - 1, entry.player)]
    \o result.value

\* five cells in a row, all empty but the one at offset j, which is own
WindowPattern(j) == [i \in 1..5 |-> IF i = j + 1 THEN 1 ELSE 0]

\* the places where the encoded lines show the window whose cell at offset j
\* is the one stone of the board
WindowPlaces(lines, j) ==
    {x \in (1..Len(lines)) \X (2..boardSize) :
        /\ x[2] + 4 <= Len(lines[x[1]]) - 1
        /\ SubSeq(lines[x[1]], x[2], x[2] + 4) = WindowPattern(j)}

\* the five-cell windows of the board that hold cell (r, c) at offset j, one
\* for each of the four directions in which such a window fits
WindowsThrough(r, c, j) ==
    {d \in 1..Len(directions) :
        /\ InBounds(r - j * directions[d][1], c - j * directions[d][2])
        /\ InBounds(r + (4 - j) * directions[d][1], c + (4 - j) * directions[d][2])}

\* the occupied cells of a board
Stones(b) == {x \in Rows \X Rows : b[x[1]][x[2]] # 0}

\* C22: getAllDiagonals(board, player) returns 2 x (2(N - 5) + 1) = 42 strings
\* for N = 15, one for every diagonal and every anti-diagonal of five and more
\* cells and none for a shorter one, each listing the cells of its diagonal in
\* order over own, empty and other with a boundary symbol at both ends; with
\* the row and column strings, every five-cell window of the board lies in
\* exactly one encoded line (seen on the boards with one own stone, where a
\* window through the stone shows in the strings as often as there are windows).
C22_DiagonalsEncoded ==
    DiagonalsDone =>
        /\ Len(result.value) = 2 * (2 * (boardSize - 5) + 1)
        /\ Len(result.value) = 42
        /\ \E expected \in {ExpectedDiagonals(entry.board, entry.player)} :
               /\ \A e \in expected :
                      ListCount(result.value, e[2]) = ExpectedCount(expected, e[2])
               /\ \A i \in 1..Len(result.value) : \E e \in expected : e[2] = result.value[i]
        /\ \E stones \in {Stones(entry.board)} :
               (Cardinality(stones) = 1 /\ \A x \in stones : entry.board[x[1]][x[2]] = entry.player)
                   => \E lines \in {Array(AllLines)} : \A x \in stones : \A j \in 0..4 :
                          Cardinality(WindowPlaces(lines, j)) =
                              Cardinality(WindowsThrough(x[1], x[2], j))

\* the diagonals of a board whose one stone, the player's own, lies on an
\* anti-diagonal of two cells: one string shows it
C22_Witness ==
    /\ DiagonalsDone
    /\ entry.player = 1
    /\ entry.board = SetCell(EmptyBoard, 0, 1, 1)
    /\ Cardinality({i \in 1..Len(result.value) :
                       \E n \in 1..Len(result.value[i]) : result.value[i][n] = 1}) = 1

PatternDone == pc = "done" /\ entry.op = "detectPatternInDirection"

\* the cell k steps from the given stone along the axis is on the board and
\* holds a stone of the player
OwnAt(k) ==
    /\ InBounds(entry.row + k * entry.dx, entry.col + k * entry.dy)
    /\ entry.board[entry.row + k * entry.dx][entry.col + k * entry.dy] = entry.player

\* the run through the given stone reaches from step -RunBack to step RunAhead
RunAhead == CHOOSE n \in 0..boardSize : (\A k \in 1..n : OwnAt(k)) /\ ~OwnAt(n + 1)

RunBack == CHOOSE n \in 0..boardSize : (\A k \in 1..n : OwnAt(-k)) /\ ~OwnAt(-(n + 1))

\* the cell k steps from the given stone holds a stone of the opponent or lies
\* off the board
BlockedAt(k) ==
    \/ ~InBounds(entry.row + k * entry.dx, entry.col + k * entry.dy)
    \/ entry.board[entry.row + k * entry.dx][entry.col + k * entry.dy] = 3 - entry.player

\* the name of a run of count stones, live or dead
PatternName(count, live) ==
    IF count >= 5 THEN "liveFive"
    ELSE IF count = 4 THEN (IF live THEN "liveFour" ELSE "deadFour")
    ELSE IF count = 3 THEN (IF live THEN "liveThree" ELSE "deadThree")
    ELSE IF count = 2 THEN (IF live THEN "liveTwo" ELSE "deadTwo")
    ELSE "null"

\* C23: detectPatternInDirection counts the contiguous stones of the player
\* through the given stone in both directions of the axis and takes an end as
\* blocked when the cell just beyond the run holds a stone of the opponent or
\* lies off the board; a run of 2, 3 or 4 is live only when neither end is
\* blocked in this sense, so that a run touching the edge is dead, and a run of
\* 5 or more is Five.
C23_EdgeBlocks ==
    PatternDone =>
        result.value = PatternName(1 + RunAhead + RunBack,
                                   ~BlockedAt(RunAhead + 1) /\ ~BlockedAt(-(RunBack + 1)))

\* no handler is running: the game is between two events
BetweenEvents == pc = "idle"

\* C24: in GomokuGame, under any sequence of clicks, AI moves, undoMove and
\* newGame, the stones are placed in strict alternation starting with Black:
\* whenever the game is not over, currentPlayer is 1 exactly when moveHistory
\* has even length and 2 when it has odd length, including after the undo of
\* the move that ended a game.
C24_StrictAlternation ==
    /\ \A i \in 1..Len(game.moveHistory) :
           game.moveHistory[i][3] = IF i % 2 = 1 THEN 1 ELSE 2
    /\ ~game.gameOver =>
           game.currentPlayer = IF Len(game.moveHistory) % 2 = 0 THEN 1 ELSE 2

\* C25: from the moment aiMove sets aiThinking until it clears it, no handler
\* the user triggers changes board, moveHistory or currentPlayer, so that the
\* position the AI searches and moves on is the one present when the request
\* was accepted; at most one AI request is in flight at a time.
C25_PositionHeldForAi ==
    game.aiThinking =>
        /\ game.request # << >>
        /\ BetweenEvents =>
               /\ board = game.request.board
               /\ game.moveHistory = game.request.moveHistory
               /\ game.currentPlayer = game.request.currentPlayer
        /\ pc # "idle" => entry.board = game.request.board
                          /\ entry.player = game.request.currentPlayer

\* the board that replaying a list of moves on the empty board gives
Replay(moves) ==
    [r \in Rows |-> [c \in Rows |->
        IF \E i \in 1..Len(moves) : moves[i][1] = r /\ moves[i][2] = c
        THEN moves[CHOOSE i \in 1..Len(moves) : moves[i][1] = r /\ moves[i][2] = c][3]
        ELSE 0]]

\* C26: in GomokuGame, after any sequence of clicks, AI moves with the
\* findBestMove calls behind them, undoMove and newGame, the board is the
\* replay of moveHistory: cell (r, c) holds p exactly when moveHistory contains
\* [r, c, p], every other cell is 0, and no cell occurs twice in moveHistory.
C26_BoardIsReplay ==
    (BetweenEvents \/ pc = "done") =>
        /\ board = Replay(game.moveHistory)
        /\ \A i \in 1..Len(game.moveHistory) : \A j \in 1..Len(game.moveHistory) :
               (game.moveHistory[i][1] = game.moveHistory[j][1]
                /\ game.moveHistory[i][2] = game.moveHistory[j][2]) => i = j
        /\ \A i \in 1..Len(game.moveHistory) : game.moveHistory[i][3] \in Players

\* the AI has moved to a cell no click goes to, and moves were made and undone
\* after it
C26_Witness ==
    /\ BetweenEvents
    /\ ~game.aiThinking
    /\ game.requests >= 1
    /\ searchNodes >= 1
    /\ Len(game.moveHistory) >= 3
    /\ \E i \in 1..(Len(game.moveHistory) - 1) :
           \A k \in 1..Len(ClickOrder) :
               ClickOrder[k] # <<game.moveHistory[i][1], game.moveHistory[i][2]>>
    /\ board = Replay(game.moveHistory)

\* C27: in GomokuGame, between any two events gameOver is true exactly when
\* checkWinner(board) is not -1, and winner is then the value of checkWinner;
\* no stone is placed by a click or by the AI while gameOver is true, and
\* undoMove returns the game to a position that is not terminal, with gameOver
\* false.
C27_GameOverIffWinner ==
    /\ [](BetweenEvents =>
            /\ game.gameOver <=> checkWinner(board) # -1
            /\ game.gameOver => game.winner = <<checkWinner(board)>>
            /\ ~game.gameOver => game.winner = << >>)
    /\ [][game.gameOver =>
            \A r \in Rows : \A c \in Rows : board'[r][c] # 0 => board'[r][c] = board[r][c]]_vars
    /\ [][(BetweenEvents /\ Len(game'.moveHistory) = Len(game.moveHistory) - 1) =>
            ~game'.gameOver /\ checkWinner(board') = -1]_vars

\* the game is over with five black stones in a row
C27_Witness ==
    /\ BetweenEvents
    /\ game.gameOver
    /\ game.winner = <<1>>
    /\ checkWinner(board) = 1
    /\ Len(game.moveHistory) = MaxMoves

\* C28: every alphaBetaSearch invocation made during a findBestMove call is
\* entered with alpha strictly less than beta: the root passes -Infinity and
\* -alpha, its own beta being Infinity, and an interior node recurses only
\* while its own alpha < beta, passing -beta and -alpha.
C28_WindowOpen ==
    (Searching /\ pc = "enter") =>
        LET f == stack[Len(stack)]
        IN  /\ f.alpha < f.beta
            /\ f.beta <= Infinity /\ f.alpha >= -Infinity
            /\ Len(stack) = 1 =>
                   /\ root.beta = Infinity
                   /\ f.alpha = -Infinity
                   /\ f.beta = -root.alpha
            /\ Len(stack) >= 2 =>
                   /\ stack[Len(stack) - 1].alpha < stack[Len(stack) - 1].beta
                   /\ f.alpha = -stack[Len(stack) - 1].beta
                   /\ f.beta = -stack[Len(stack) - 1].alpha

\* an invocation below an interior node is entered with a window that both of
\* its bounds have narrowed
C28_Witness ==
    /\ Searching
    /\ pc = "enter"
    /\ Len(stack) >= 2
    /\ stack[Len(stack)].alpha > -Infinity
    /\ stack[Len(stack)].beta < Infinity
    /\ stack[Len(stack)].alpha < stack[Len(stack)].beta
    /\ stack[Len(stack) - 1].i >= 2

\* ------------------------------------------------------------------------
\* C29: the terminal detector and the evaluator agree on five-in-a-row: after
\* evaluatePatternsForPlayer(board, p), hasFiveInARow(board, p) is true exactly
\* when the liveFive rule scored at least once over the row, column and
\* diagonal strings, and then the value is at least the liveFive weight
\* ------------------------------------------------------------------------

PatternScoreDone == pc = "done" /\ entry.op = "evaluatePatternsForPlayer"

C29_FiveAgreement ==
    PatternScoreDone =>
        /\ hasFiveInARow(entry.board, entry.player) <=> result.fives >= 1
        /\ result.fives >= 1 => result.value >= settings.patternWeights.liveFive

\* a five on the shortest anti-diagonal, seen by both
C29_Witness ==
    /\ PatternScoreDone
    /\ entry.board = Stamp(EmptyBoard, RunCells(0, 4, 4, 5), entry.player)
    /\ hasFiveInARow(entry.board, entry.player)
    /\ result.fives = 1

\* ------------------------------------------------------------------------
\* C30: under the constructor's default settings, of two boards with the same
\* pattern score for the player, the one with the larger pattern score for the
\* opponent never evaluates higher for the player
\* ------------------------------------------------------------------------

\* evaluateBoard has returned for the second time, for the same player
SecondEvaluation ==
    /\ pc = "done"
    /\ entry.op = "evaluateBoard"
    /\ history # << >>
    /\ history[1].player = entry.player

PatternScore(b, p) == evaluatePatternsForPlayer(b, p, settings.patternWeights)

C30_OpponentLowers ==
    SecondEvaluation =>
        \E own \in {PatternScore(entry.board, entry.player)} :
        \E ownBefore \in {PatternScore(history[1].board, entry.player)} :
        \E opp \in {PatternScore(entry.board, 3 - entry.player)} :
        \E oppBefore \in {PatternScore(history[1].board, 3 - entry.player)} :
            (own = ownBefore /\ opp > oppBefore)
                => result.value <= history[1].result.value

====
